---- MODULE Spec2Model ----
(***************************************************************************)
(* Continuous double auction of src/CDA.py: the depth-one limit order book *)
(* (Orderbook), the matching engine (Exchange.process_order), the          *)
(* bookkeeping of the traders (bookkeep, reset_allocation,                 *)
(* get_feasible_choices), the belief of Trader_eGD, the two-leg plan of    *)
(* Trader_GDZ and the part of the module-level driver loop that connects   *)
(* them.                                                                   *)
(*                                                                         *)
(* Spec          the driver with traders that hand in any order            *)
(* SpecContract  the same with orders of an unknown side and with bookkeep *)
(*               called on a trader outside the trade                      *)
(* SpecPlan      the driver with traders that follow Trader_GDZ.get_order  *)
(* SpecChoices   get_feasible_choices on its own                           *)
(* SpecBelief    the driver with traders that keep the belief of           *)
(*               Trader_eGD (respond, equilibrium_price)                   *)
(* SpecStale     the driver after a resting bid has lost its cover         *)
(* SpecShout     the driver with traders that follow Trader_eGD.get_order  *)
(*               after the first four orders of a period                   *)
(* SpecZIP       the driver with traders that follow Trader_ZIP (choose_   *)
(*               action, get_order, respond) after the first timestep      *)
(***************************************************************************)
EXTENDS Integers, Sequences, FiniteSets, TLC

(***************************************************************************)
(* Bounds of the model.                                                    *)
(***************************************************************************)
\* orders handed to the exchange in one behaviour (driver counter order_id)
MaxOrders == 4
\* the quantity of a block order
MaxQty == 2

(***************************************************************************)
(* Program constants.                                                      *)
(***************************************************************************)
\* Exchange.__init__ defaults
minprice == 1
maxprice == 201

\* Python's None inside the anonymised (price, quantity) tuples
None == -1

Goods == {"X", "Y"}
Sides == {"bid", "ask"}
Items == {"money", "X", "Y"}

\* generate_traders: one trader of each type 1, 2, 3 per roster entry
Traders == 1 .. 3
ttype(tid) == ((tid - 1) % 3) + 1

\* the roster [("GDZ", 1)]: every trader runs the algorithm that can send
\* every kind of order
talgo(tid) == "GDZ"

\* quantities submitted by the traders: the unit order of every get_order and
\* a block of several units
Quantities == {1, MaxQty}

\* prices submitted by the traders: the two exclusive bounds of the exchange,
\* the lowest and the highest admissible price
Prices == {minprice, minprice + 1, maxprice - 1, maxprice}

(***************************************************************************)
(* Order.__init__ : the flags start False, target_price None.              *)
(***************************************************************************)
Order(oid, tid, otype, ptype, price, quantity) ==
  [oid |-> oid, tid |-> tid, otype |-> otype, ptype |-> ptype,
   price |-> price, quantity |-> quantity,
   accepted |-> FALSE, strategic |-> FALSE, arbitrage |-> FALSE,
   target_price |-> None]

\* the driver's "order = None" and "trade = None"
NoOrder ==
  [oid |-> 0, tid |-> 0, otype |-> "none", ptype |-> "none",
   price |-> 0, quantity |-> 0,
   accepted |-> FALSE, strategic |-> FALSE, arbitrage |-> FALSE,
   target_price |-> None]

NoTrade ==
  [buyer_id |-> 0, seller_id |-> 0, price |-> 0, quantity |-> 0,
   ptype |-> "none", arbitrage |-> FALSE, taker |-> 0]

(***************************************************************************)
(* Orderbook                                                               *)
(***************************************************************************)
\* Orderbook.__init__ : lob[g] is a dictionary from side to Order, a side
\* without resting order is not a key of it
EmptyDict == [s \in {} |-> NoOrder]
EmptyLob == [g \in Goods |-> EmptyDict]
EmptyAlob == [g \in Goods |-> [s \in Sides |-> <<>>]]

Has(lob, g, s) == s \in DOMAIN lob[g]

\* a view that names the owner of each resting order
AnonLob_WithOwner(lob) ==
  [g \in Goods |-> [s \in Sides |->
      IF Has(lob, g, s) THEN <<lob[g][s].price, lob[g][s].quantity, lob[g][s].tid>>
                        ELSE <<None, None>>]]

\* Orderbook.anon_lob
AnonLob(lob) ==
  [g \in Goods |-> [s \in Sides |->
      IF Has(lob, g, s) THEN <<lob[g][s].price, lob[g][s].quantity>>
                        ELSE <<None, None>>]]

\* self.lob[order.ptype][order.otype] = order
PutOrder(lob, order) ==
  [lob EXCEPT ![order.ptype] = (order.otype :> order) @@ lob[order.ptype]]

\* a book in which the last order wins
Improves_Always(order, resting) == TRUE

\* a book that lets a tie replace the resting order
Improves_OrEqual(order, resting) ==
  IF order.otype = "bid" THEN order.price >= resting.price
                         ELSE order.price <= resting.price

\* a book whose resting order is never displaced
Improves_Never(order, resting) == FALSE

\* Orderbook.add_order_lob, the comparison of a bid with the resting bid and
\* of an ask with the resting ask
Improves(order, resting) ==
  IF order.otype = "bid" THEN order.price > resting.price
                         ELSE order.price < resting.price

\* a book that takes the order it rejects
AddOrderLob_Overwrites(lob, order) ==
  IF ~Has(lob, order.ptype, order.otype)
    THEN [ok |-> TRUE, lob |-> PutOrder(lob, order), how |-> "empty"]
  ELSE IF Improves(order, lob[order.ptype][order.otype])
    THEN [ok |-> TRUE, lob |-> PutOrder(lob, order), how |-> "improved"]
  ELSE [ok |-> FALSE, lob |-> PutOrder(lob, order), how |-> "rejected"]

\* Orderbook.add_order_lob : the returned bool, the book afterwards and the
\* branch taken ("empty": no resting order, "improved", "rejected")
AddOrderLob(lob, order) ==
  IF ~Has(lob, order.ptype, order.otype)
    THEN [ok |-> TRUE, lob |-> PutOrder(lob, order), how |-> "empty"]
  ELSE IF Improves(order, lob[order.ptype][order.otype])
    THEN [ok |-> TRUE, lob |-> PutOrder(lob, order), how |-> "improved"]
  ELSE [ok |-> FALSE, lob |-> lob, how |-> "rejected"]

\* Orderbook.del_order_lob, the book part
DelOrderLob(lob, ptype, otype) ==
  [lob EXCEPT ![ptype] = [s \in (DOMAIN lob[ptype]) \ {otype} |-> lob[ptype][s]]]

\* self.ob.lob[ptype][otype].quantity -= n
ReduceQuantity(lob, ptype, otype, n) ==
  [lob EXCEPT ![ptype][otype].quantity = @ - n]

(***************************************************************************)
(* Trader                                                                  *)
(***************************************************************************)
\* Trader.reset_allocation
Endowment(tp) ==
  IF tp = 1 THEN [money |-> 0, X |-> 10, Y |-> 0]
  ELSE IF tp = 2 THEN [money |-> 0, X |-> 0, Y |-> 20]
  ELSE [money |-> 400, X |-> 0, Y |-> 0]

\* bookkeep with a seller that keeps the goods it has sold
Bookkeep_KeepsGoods(bal, tid, tr) ==
  IF tr.buyer_id = tr.seller_id THEN bal
  ELSE IF tr.buyer_id = tid
    THEN [bal EXCEPT ![tr.ptype] = @ + tr.quantity,
                     !["money"] = @ - tr.quantity * tr.price]
  ELSE IF tr.seller_id = tid
    THEN [bal EXCEPT !["money"] = @ + tr.quantity * tr.price]
  ELSE bal

\* bookkeep that moves the unit price whatever the quantity
Bookkeep_UnitPrice(bal, tid, tr) ==
  IF tr.buyer_id = tr.seller_id THEN bal
  ELSE IF tr.buyer_id = tid
    THEN [bal EXCEPT ![tr.ptype] = @ + tr.quantity,
                     !["money"] = @ - tr.price]
  ELSE IF tr.seller_id = tid
    THEN [bal EXCEPT ![tr.ptype] = @ - tr.quantity,
                     !["money"] = @ + tr.price]
  ELSE bal

\* Trader.bookkeep, the balance of trader tid after the call
Bookkeep(bal, tid, tr) ==
  IF tr.buyer_id = tr.seller_id THEN bal
  ELSE IF tr.buyer_id = tid
    THEN [bal EXCEPT ![tr.ptype] = @ + tr.quantity,
                     !["money"] = @ - tr.quantity * tr.price]
  ELSE IF tr.seller_id = tid
    THEN [bal EXCEPT ![tr.ptype] = @ - tr.quantity,
                     !["money"] = @ + tr.quantity * tr.price]
  ELSE bal

\* Trader.calc_utility times 400, which keeps it an integer: the two
\* quotients of the minimum (money/400, X/10, Y/20) on the common denominator
calc_utility(tp, bal) ==
  LET money == bal["money"]
      x == 40 * bal["X"]
      y == 20 * bal["Y"]
  IN IF tp = 1 THEN (IF money < y THEN money ELSE y)
     ELSE IF tp = 2 THEN (IF money < x THEN money ELSE x)
     ELSE (IF x < y THEN x ELSE y)

\* a blotter that records only the trades between two traders
BlotterAfter_TwoParties(blot, tr) ==
  IF tr.buyer_id = tr.seller_id THEN blot ELSE Append(blot, tr)

\* "Add the transaction to blotter", the first statement of bookkeep
BlotterAfter(blot, tr) == Append(blot, tr)

\* bookkeep reaches its end: the trade is a self-trade (first test), or the
\* trader is its buyer or its seller; otherwise it raises ValueError
BookkeepReturns(tid, tr) ==
  tr.buyer_id = tr.seller_id \/ tr.buyer_id = tid \/ tr.seller_id = tid

\* Python's (v or d) for a price v of the view: d when v is None or 0
OrElse(v, d) == IF v = None \/ v = 0 THEN d ELSE v

\* [x] if the condition holds, [] otherwise
ListIf(cond, x) == IF cond THEN <<x>> ELSE <<>>

\* a trader that may bid what the resting bid already offers
CanImprove_OrEqual(money, top) == money >= OrElse(top, 0)

\* "Check if we can improve best bid so we can buy it"
CanImprove(money, top) == money > OrElse(top, 0)

\* a trader type whose two tests are both made
IfElif_Both(first, second) == first \o second

\* the if/elif of a trader type in the arbitrage mode: the second test is
\* made only when the first has failed
IfElif(first, second) == IF first # <<>> THEN first ELSE second

\* Trader.get_feasible_choices: the list of (action, good) pairs for the
\* balance bal of a trader of type tp and the view orderbook
get_feasible_choices(tp, bal, orderbook, do_nothing, arbitrage) ==
  IF arbitrage
    THEN LET sellY == orderbook["Y"]["bid"][1] # None /\ bal["Y"] > 0
             sellX == orderbook["X"]["bid"][1] # None /\ bal["X"] > 0
             buyX == /\ orderbook["X"]["ask"][1] # None
                     /\ bal["money"] >= OrElse(orderbook["X"]["ask"][1], 2000)
             buyY == /\ orderbook["Y"]["ask"][1] # None
                     /\ bal["money"] >= OrElse(orderbook["Y"]["ask"][1], 2000)
         IN IF tp = 1
              THEN IfElif(ListIf(sellY, <<"ask", "Y">>), ListIf(buyX, <<"bid", "X">>))
            ELSE IF tp = 2
              THEN IfElif(ListIf(buyY, <<"bid", "Y">>), ListIf(sellX, <<"ask", "X">>))
            ELSE IfElif(ListIf(sellY, <<"ask", "Y">>), ListIf(sellX, <<"ask", "X">>))
    ELSE ListIf(do_nothing, <<"do nothing", " ">>)
         \o ListIf(bal["X"] > 0, <<"ask", "X">>)
         \o ListIf(bal["Y"] > 0, <<"ask", "Y">>)
         \o ListIf(CanImprove(bal["money"], orderbook["X"]["bid"][1]), <<"bid", "X">>)
         \o ListIf(CanImprove(bal["money"], orderbook["Y"]["bid"][1]), <<"bid", "Y">>)

\* Trader_GDZ.bookkeep, line 1575: the trade has filled a resting order that
\* carries the arbitrage flag, and this trader is named as its taker
ArbitrageFilled(tid, tr) ==
  talgo(tid) = "GDZ" /\ tr.arbitrage /\ tid = tr.taker

\* the entry appended to arbitrage_trades: the trade with original_price,
\* profit and target_price of the strategic order
ArbitrageRecord(tr, strategic) ==
  [trade |-> tr,
   original_price |-> strategic.price,
   profit |-> IF strategic.otype = "ask" THEN strategic.price - tr.price
              ELSE tr.price - strategic.price,
   target_price |-> strategic.target_price]

(***************************************************************************)
(* Exchange.process_order : successful_order, trade and the book           *)
(* afterwards, for the book lob, the balances bal and the incoming order.  *)
(* branch names the path taken through the function, admit the branch of   *)
(* add_order_lob when it was called ("none" otherwise).                    *)
(***************************************************************************)
Result(ok, tr, lob, branch, admit) ==
  [successful_order |-> ok, trade |-> tr, lob |-> lob, raised |-> FALSE,
   branch |-> branch, admit |-> admit]

\* self.ob.lob[ptype][otype] of a side that is not a key: KeyError, the call
\* does not return
KeyError(lob) ==
  [successful_order |-> FALSE, trade |-> NoTrade, lob |-> lob, raised |-> TRUE,
   branch |-> "keyerror", admit |-> "none"]

\* successful_order = self.ob.add_order_lob(order)
Admit(lob, order, branch) ==
  LET r == AddOrderLob(lob, order)
  IN Result(r.ok, NoTrade, r.lob, branch, r.how)

\* the dictionary built at "Create trade for book keeping"; the ask branch
\* names buyer_id as taker, the bid branch seller_id
Trade(buyer_id, seller_id, price_sold, quant_sold, ptype, arbitrage, taker) ==
  [buyer_id |-> buyer_id, seller_id |-> seller_id, price |-> price_sold,
   quantity |-> quant_sold, ptype |-> ptype, arbitrage |-> arbitrage,
   taker |-> taker]

\* a price filter with inclusive bounds
OutOfRange_Inclusive(price) == price < minprice \/ price > maxprice

\* the price filter (line 211)
OutOfRange(price) == price <= minprice \/ price >= maxprice

\* "Check if they have enough to post the offer" (line 216)
HoldsGoods(bal, order) == order.quantity <= bal[order.tid][order.ptype]

\* "Check if they have enough money to post the bid" (line 280)
HasMoney(bal, order) == order.price * order.quantity <= bal[order.tid]["money"]

\* the ask branch with the sentinel of the bid branch
AskFloor_Max(lob, g) == IF ~Has(lob, g, "bid") THEN maxprice ELSE lob[g]["bid"].price

\* the price the incoming order is compared with: the resting order of the
\* other side, or the sentinel when there is none
AskFloor(lob, g) == IF ~Has(lob, g, "bid") THEN minprice ELSE lob[g]["bid"].price
BidFloor(lob, g) == IF ~Has(lob, g, "ask") THEN maxprice ELSE lob[g]["ask"].price

\* a check of the unit price against the money of the bidder
BuyerCanPay_UnitPrice(bal, bid) == bid.price <= bal[bid.tid]["money"]

\* a match that trusts the resting bid
BuyerCanPay_Unchecked(bal, bid) == TRUE

\* "Check if counterparty still holds the money to complete the trade" (line 234)
BuyerCanPay(bal, bid) == bid.price * bid.quantity <= bal[bid.tid]["money"]

\* "Check if counterparty still holds the goods to complete the trade" (line 296)
SellerCanDeliver(bal, order, ask) == order.quantity <= bal[ask.tid][order.ptype]

\* a trade at the price of the incoming order
PriceSold_Taker(order, resting) == order.price

\* price_sold of both branches
PriceSold(order, resting) == resting.price

\* a trade that copies the strategic flag of the resting order
ArbitrageFlag_Strategic(resting) == resting.strategic

\* the "arbitrage" entry of the trade record: the arbitrage flag of the
\* resting order (lines 236-239 and 298-301)
ArbitrageFlag(resting) == resting.arbitrage

\* a trade record that names the trader of the incoming order
Taker_Submitter(otype, buyer_id, seller_id) ==
  IF otype = "ask" THEN seller_id ELSE buyer_id

\* the "taker" entry of the trade record: buyer_id where the incoming order
\* is an ask (line 263), seller_id where it is a bid (line 326)
Taker(otype, buyer_id, seller_id) ==
  IF otype = "ask" THEN buyer_id ELSE seller_id

\* a partial fill also when the two quantities are equal
FillsPartly_OrEqual(order, resting) == order.quantity <= resting.quantity

\* "Check if it's a partial fill" (lines 242 and 304)
FillsPartly(order, resting) == order.quantity < resting.quantity

\* a full fill that leaves the rest of the incoming order in the book
FullFill_RestsRemainder(lob, order, resting) ==
  LET gone == DelOrderLob(lob, resting.ptype, resting.otype)
  IN IF order.quantity > resting.quantity
       THEN PutOrder(gone, [order EXCEPT !.quantity = @ - resting.quantity])
       ELSE gone

\* "Else it's a full fill": the resting order leaves the book, nothing of the
\* incoming order enters it (lines 248-251 and 310-314)
FullFill(lob, order, resting) == DelOrderLob(lob, resting.ptype, resting.otype)

\* an order that rests beside an order of the other side at its own price
Crosses_Strict(order, floorprice) ==
  IF order.otype = "ask" THEN order.price < floorprice
                         ELSE order.price > floorprice

\* "Check if the bid crosses the ask" (lines 227 and 290)
Crosses(order, floorprice) ==
  IF order.otype = "ask" THEN order.price <= floorprice
                         ELSE order.price >= floorprice

\* an ask crosses the resting bid, or rests
ProcessAsk(lob, bal, order) ==
  LET g == order.ptype
      floorprice == AskFloor(lob, g)
  IN
  IF ~HoldsGoods(bal, order)
    THEN Result(FALSE, NoTrade, lob, "insufficient", "none")
  ELSE IF Crosses(order, floorprice) /\ ~Has(lob, g, "bid")
    THEN KeyError(lob)
  ELSE IF Crosses(order, floorprice)
    THEN LET bid == lob[g]["bid"]
             buyer_id == bid.tid
             seller_id == order.tid
         IN IF BuyerCanPay(bal, bid)
              THEN IF FillsPartly(order, bid)
                     THEN Result(TRUE,
                                 Trade(buyer_id, seller_id, PriceSold(order, bid),
                                       order.quantity, g, ArbitrageFlag(bid),
                                       Taker("ask", buyer_id, seller_id)),
                                 ReduceQuantity(lob, g, "bid", order.quantity),
                                 "partial", "none")
                     ELSE Result(TRUE,
                                 Trade(buyer_id, seller_id, PriceSold(order, bid),
                                       bid.quantity, g, ArbitrageFlag(bid),
                                       Taker("ask", buyer_id, seller_id)),
                                 FullFill(lob, order, bid),
                                 "full", "none")
              ELSE Admit(DelOrderLob(lob, g, "bid"), order, "stale")
  ELSE Admit(lob, order, "rest")

\* a bid crosses the resting ask, or rests
ProcessBid(lob, bal, order) ==
  LET g == order.ptype
      floorprice == BidFloor(lob, g)
  IN
  IF ~HasMoney(bal, order)
    THEN Result(FALSE, NoTrade, lob, "insufficient", "none")
  ELSE IF Crosses(order, floorprice) /\ ~Has(lob, g, "ask")
    THEN KeyError(lob)
  ELSE IF Crosses(order, floorprice)
    THEN LET ask == lob[g]["ask"]
             seller_id == ask.tid
             buyer_id == order.tid
         IN IF SellerCanDeliver(bal, order, ask)
              THEN IF FillsPartly(order, ask)
                     THEN Result(TRUE,
                                 Trade(buyer_id, seller_id, PriceSold(order, ask),
                                       order.quantity, g, ArbitrageFlag(ask),
                                       Taker("bid", buyer_id, seller_id)),
                                 ReduceQuantity(lob, g, "ask", order.quantity),
                                 "partial", "none")
                     ELSE Result(TRUE,
                                 Trade(buyer_id, seller_id, PriceSold(order, ask),
                                       ask.quantity, g, ArbitrageFlag(ask),
                                       Taker("bid", buyer_id, seller_id)),
                                 FullFill(lob, order, ask),
                                 "full", "none")
              ELSE Admit(DelOrderLob(lob, g, "ask"), order, "stale")
  ELSE Admit(lob, order, "rest")

\* process_order that settles the trade it has made
TradersAfterProcess_Settles(bal, r) ==
  IF r.trade = NoTrade THEN bal
  ELSE [t \in Traders |-> Bookkeep(bal[t], t, r.trade)]

\* the balances of the traders after process_order: the function reads
\* traders[...].balance and assigns to none of them
TradersAfterProcess(bal, r) == bal

\* raise ValueError("Offer was neither a bid nor an ask"): the call does not
\* return
ValueError(lob) ==
  [successful_order |-> FALSE, trade |-> NoTrade, lob |-> lob, raised |-> TRUE,
   branch |-> "invalid_side", admit |-> "none"]

\* process_order that looks at the side before it looks at the price
ProcessOrder_SideFirst(lob, bal, order) ==
  IF order.otype \notin Sides THEN ValueError(lob)
  ELSE IF OutOfRange(order.price)
    THEN Result(FALSE, NoTrade, lob, "out_of_range", "none")
  ELSE IF order.otype = "ask" THEN ProcessAsk(lob, bal, order)
  ELSE ProcessBid(lob, bal, order)

\* Exchange.process_order: the price filter, then the branch of the side
ProcessOrder(lob, bal, order) ==
  IF OutOfRange(order.price) THEN Result(FALSE, NoTrade, lob, "out_of_range", "none")
  ELSE IF order.otype = "ask" THEN ProcessAsk(lob, bal, order)
  ELSE IF order.otype = "bid" THEN ProcessBid(lob, bal, order)
  ELSE ValueError(lob)

(***************************************************************************)
(* Trader_eGD: the belief shared by the eGD and GDZ traders                *)
(***************************************************************************)
\* the class attribute last_lob: (None, None) in every cell
NoneView == [g \in Goods |-> [s \in Sides |-> <<None, None>>]]

\* self.memory
memory == 30

\* an observation (price, quantity, accepted, side, oid) of the history
Observation(cell, accepted, action, oid) ==
  <<cell[1], cell[2], accepted, action, oid>>

\* the indices of the observations with t[2] == True
Trades(his) == {i \in 1 .. Len(his) : his[i][3]}

\* a history that is never cut
trim_history_Never(his) == his

\* Trader_eGD.trim_history: with more than memory trades, the history after
\* the first trade
trim_history(his) ==
  IF Cardinality(Trades(his)) > memory
    THEN LET index == CHOOSE i \in Trades(his) : \A j \in Trades(his) : i <= j
         IN SubSeq(his, index + 1, Len(his))
    ELSE his

\* respond, the body of "for action in [bid, ask]" for one side: floor is
\* the cell of the view, prev the cell of last_lob
Observe(his, floor, prev, action, oid) ==
  IF floor = prev THEN his
  ELSE IF floor[1] # None
    THEN IF /\ prev[1] # None
            /\ IF action = "bid" THEN prev[1] < floor[1] ELSE prev[1] > floor[1]
           THEN Append(his, Observation(prev, FALSE, action, oid))
           ELSE his
  ELSE IF prev[1] # None
    THEN trim_history(Append(his, Observation(prev, TRUE, action, oid)))
  ELSE his

\* the history of the good of the order after the loop over bid and ask
HistoryAfterRespond(his, view, last, o) ==
  LET good == o.ptype
      bids == Observe(his, view[good]["bid"], last[good]["bid"], "bid", o.oid)
  IN Observe(bids, view[good]["ask"], last[good]["ask"], "ask", o.oid)

\* 20 + 60*random.random() and 10 + 30*random.random(): the lowest value and
\* a value just below the upper end of the range
FallbackLow(good) == IF good = "X" THEN 20 ELSE 10
FallbackPrices(good) == IF good = "X" THEN {20, 79} ELSE {10, 39}

\* np.argmin over the 201 prices of the probability vectors: the two ends
SplinePrices == {0, 200}

\* enough history only when either kind of observation is there
NotEnoughHistory_Both(prices_bid, prices_ask) ==
  prices_bid < 10 /\ prices_ask < 5

\* "If there is not enough history then return a random price", for the
\* numbers of bid and of ask observations
NotEnoughHistory(prices_bid, prices_ask) ==
  prices_bid < 10 \/ prices_ask < 5

\* the number of observations of one side
CountSide(his, action) == Cardinality({i \in 1 .. Len(his) : his[i][4] = action})

\* Trader_eGD.equilibrium_price: the values the call can return with the
\* history his of the good; the result of the splines is left open
equilibrium_price(good, his) ==
  IF NotEnoughHistory(CountSide(his, "bid"), CountSide(his, "ask"))
    THEN {[spline |-> FALSE, price |-> p] : p \in FallbackPrices(good)}
    ELSE {[spline |-> TRUE, price |-> p] : p \in SplinePrices}

\* a period boundary that also forgets the observations
HistoryAfterReset_Forgets(his) == [g \in Goods |-> <<>>]

\* Exchange.reset_allocations and reset_allocation assign to no attribute of
\* the belief
HistoryAfterReset(his) == his

(***************************************************************************)
(* The driver loop (module level of CDA.py).                               *)
(***************************************************************************)
VARIABLES
  lob,        \* exchange.ob.lob
  alob,       \* exchange.ob.alob, the published view
  balance,    \* traders[tid].balance
  order_id,   \* the next order id
  order,      \* the order of the current iteration
  trade,      \* the trade of the current iteration
  pc,         \* the position of the driver
  branch,     \* the path process_order took in the current iteration
  utility,    \* traders[tid].utility (times 400)
  blotter,    \* traders[tid].blotter
  trade_history,    \* the list trade_history of the driver
  strategic_order,  \* traders[tid].strategic_order
  arbitrage_order,  \* traders[tid].arbitrage_order
  arbitrage_trades, \* traders[tid].arbitrage_trades
  rejected_trades,  \* traders[tid].rejected_trades
  feasible,         \* the last call of get_feasible_choices and its result
  history,    \* Trader_eGD.history, shared by all instances
  last_lob,   \* traders[tid].last_lob (the class attribute until assigned)
  new_turn,   \* Trader_eGD.new_turn
  e_price,    \* Trader_eGD.e_price, with the branch that produced it
  responder,  \* the index i of the loop that calls traders[i].respond
  prob,       \* prob of arbitrage_opportunity when it commits a plan (percent)
  trader_list,    \* the traders that have yet to act in the timestep
  trader,         \* the tid of the trader asked for an order in this iteration
  choice,         \* traders[tid].choice of Trader_ZIP
  buyer,          \* traders[tid].buyer of Trader_ZIP
  shout_price,    \* traders[tid].shout_price of Trader_ZIP, in halves
  last_price_bid, \* traders[tid].last_price_bid of Trader_ZIP
  last_price_ask, \* traders[tid].last_price_ask of Trader_ZIP
  active          \* traders[tid].active

\* the fields of the two-leg plan of each trader
plan == <<strategic_order, arbitrage_order, arbitrage_trades, rejected_trades>>

\* the belief of the eGD and GDZ traders and the loop that updates it
belief == <<history, last_lob, new_turn, e_price, responder>>

\* the fields of the ZIP traders
zip == <<choice, buyer, shout_price, last_price_bid, last_price_ask>>

\* the timestep of the driver with the trader it has picked, and the fields
\* of the ZIP traders
cycle == <<trader_list, trader, zip>>

vars == <<lob, alob, balance, order_id, order, trade, pc, branch,
          utility, blotter, trade_history, plan, feasible, belief, prob,
          cycle, active>>

\* x of np.arange(201), the candidate prices of the second order
UnwindPrices == {p \in Prices : p >= 0 /\ p <= 200}

\* no plan committed in the current iteration
NoProb == [x \in UnwindPrices |-> 0]

\* no call of get_feasible_choices yet
NoCall == [tid |-> 0, do_nothing |-> FALSE, choices |-> <<>>]

NoBranch == [process |-> "none", admit |-> "none"]

\* shout_price = {"X": 20 + 60*random.random(), "Y": 10 + 30*random.random()}
\* in halves, for draws that leave trader t at (t - 1/2) above the lowest
\* value of the range: 20.5, 21.5 and 22.5 for X, 10.5, 11.5 and 12.5 for Y
FirstShout(t, g) == 2 * FallbackLow(g) + 2 * t - 1

\* Trader.__init__ with its reset_allocation and Trader_ZIP.__init__; no
\* timestep begun
NoCycle ==
  /\ trader_list = {}
  /\ trader = 0
  /\ choice = [t \in Traders |-> <<>>]
  /\ buyer = [t \in Traders |-> TRUE]
  /\ shout_price = [t \in Traders |-> [g \in Goods |-> FirstShout(t, g)]]
  /\ last_price_bid = [t \in Traders |-> [g \in Goods |-> None]]
  /\ last_price_ask = [t \in Traders |-> [g \in Goods |-> None]]
  /\ active = [t \in Traders |-> TRUE]

\* the class attributes of Trader_eGD when the module has been loaded, the
\* random e_price being the lowest value of its range; no plan committed
NoBelief ==
  /\ history = [g \in Goods |-> <<>>]
  /\ last_lob = [t \in Traders |-> NoneView]
  /\ new_turn = FALSE
  /\ e_price = [g \in Goods |-> [spline |-> FALSE, price |-> FallbackLow(g)]]
  /\ responder = 0
  /\ prob = NoProb
  /\ NoCycle

\* the state after generate_traders(spec) and Exchange(traders)
Init ==
  /\ lob = EmptyLob
  /\ alob = EmptyAlob
  /\ balance = [t \in Traders |-> Endowment(ttype(t))]
  /\ order_id = 1
  /\ order = NoOrder
  /\ trade = NoTrade
  /\ pc = "start"
  /\ branch = NoBranch
  /\ utility = [t \in Traders |-> 0]
  /\ blotter = [t \in Traders |-> <<>>]
  /\ trade_history = <<>>
  /\ strategic_order = [t \in Traders |-> NoOrder]
  /\ arbitrage_order = [t \in Traders |-> NoOrder]
  /\ arbitrage_trades = [t \in Traders |-> <<>>]
  /\ rejected_trades = [t \in Traders |-> <<>>]
  /\ feasible = NoCall
  /\ NoBelief

\* a period boundary that files nothing
RejectedAfterReset_Never(rejected, strategic) == rejected

\* Trader_GDZ.reset_allocation, "Check if we have outstanding arbitrage
\* orders if so they failed"
RejectedAfterReset(rejected, strategic) ==
  IF strategic # NoOrder THEN Append(rejected, strategic) ELSE rejected

\* Exchange.reset_allocations at the start of a period: the first one, or the
\* next one once the while loop of the last timestep has come to its end.
\* Trader_GDZ.reset_allocation files a strategic order that is still open
\* under rejected_trades and drops the plan.
ResetAllocations ==
  /\ pc \in {"start", "loop"}
  /\ balance' = [t \in Traders |-> Endowment(ttype(t))]
  /\ lob' = EmptyLob
  /\ alob' = EmptyAlob
  /\ utility' = [t \in Traders |-> 0]
  /\ rejected_trades' =
       [t \in Traders |->
          IF talgo(t) = "GDZ"
            THEN RejectedAfterReset(rejected_trades[t], strategic_order[t])
            ELSE rejected_trades[t]]
  /\ strategic_order' = [t \in Traders |-> NoOrder]
  /\ arbitrage_order' = [t \in Traders |-> NoOrder]
  /\ pc' = "loop"
  /\ history' = HistoryAfterReset(history)
  /\ active' = [t \in Traders |-> TRUE]
  /\ UNCHANGED <<order_id, order, trade, branch, blotter, trade_history,
                 arbitrage_trades, feasible, last_lob, new_turn, e_price,
                 responder, prob, cycle>>

\* lob = exchange.publish_alob(), the view handed to get_order
publish_alob == AnonLob(lob)

\* the driver with the order o that get_order has returned and that carries
\* the next order id: the exchange processes it, the view is published
ExchangeStep(o) ==
  /\ LET r == ProcessOrder(lob, balance, o)
         done == [o EXCEPT !.accepted = r.successful_order]
     IN /\ order' = IF r.raised THEN o ELSE done
        /\ trade' = r.trade
        \* the order resting in the book is the object the driver marks accepted
        /\ lob' = IF Has(r.lob, o.ptype, o.otype) /\ r.lob[o.ptype][o.otype].oid = o.oid
                    THEN PutOrder(r.lob, done) ELSE r.lob
        \* alob = exchange.publish_alob() under "if successful_order"
        /\ alob' = IF r.successful_order THEN AnonLob(r.lob) ELSE publish_alob
        /\ branch' = [process |-> r.branch, admit |-> r.admit]
        /\ balance' = TradersAfterProcess(balance, r)
  /\ order_id' = order_id + 1
  /\ UNCHANGED <<utility, blotter, trade_history, feasible>>

\* the driver after process_order has returned r, when no trader keeps a
\* belief: on to the bookkeeping of a trade, or to the next iteration
AfterProcess(r) ==
  IF r.raised THEN "raised"
  ELSE IF r.successful_order /\ r.trade # NoTrade THEN "bookkeep_seller"
  ELSE "next"

\* the same up to the bookkeeping, the calls of respond left out
ProcessStep(o) ==
  /\ ExchangeStep(o)
  /\ pc' = AfterProcess(ProcessOrder(lob, balance, o))
  /\ UNCHANGED <<belief, prob,
                 cycle, active>>

\* one iteration of the while loop up to the bookkeeping: the trader tid
\* hands in an order without flags
SubmitOrder(tid, otype, ptype, price, quantity) ==
  /\ pc = "loop"
  /\ order_id <= MaxOrders
  /\ ProcessStep(Order(order_id, tid, otype, ptype, price, quantity))
  /\ UNCHANGED plan

\* bookkeep comes to its return statement: the trader is involved, and the
\* record of a filled arbitrage order finds the strategic order it reads
\* (self.strategic_order.price of None is an AttributeError)
BookkeepCompletes(tid, tr) ==
  /\ BookkeepReturns(tid, tr)
  /\ ArbitrageFilled(tid, tr) => strategic_order[tid] # NoOrder

\* Trader.bookkeep and Trader_GDZ.bookkeep called on trader tid with the
\* trade tr: the blotter first, then balance and utility unless the call
\* raises, then the record of the completed arbitrage
TraderBookkeep(tid, tr) ==
  /\ blotter' = [blotter EXCEPT ![tid] = BlotterAfter(@, tr)]
  /\ IF BookkeepReturns(tid, tr)
       THEN /\ balance' = [balance EXCEPT ![tid] = Bookkeep(@, tid, tr)]
            /\ utility' = [utility EXCEPT ![tid] = calc_utility(ttype(tid), balance'[tid])]
       ELSE UNCHANGED <<balance, utility>>
  /\ IF BookkeepCompletes(tid, tr) /\ ArbitrageFilled(tid, tr)
       THEN /\ arbitrage_trades' =
                 [arbitrage_trades EXCEPT
                    ![tid] = Append(@, ArbitrageRecord(tr, strategic_order[tid]))]
            /\ strategic_order' = [strategic_order EXCEPT ![tid] = NoOrder]
       ELSE UNCHANGED <<strategic_order, arbitrage_trades>>
  /\ UNCHANGED <<arbitrage_order, rejected_trades>>

\* traders[trade["seller_id"]].bookkeep(trade)
BookkeepSeller ==
  /\ pc = "bookkeep_seller"
  /\ TraderBookkeep(trade.seller_id, trade)
  /\ pc' = IF BookkeepCompletes(trade.seller_id, trade) THEN "bookkeep_buyer" ELSE "raised"
  /\ UNCHANGED <<lob, alob, order_id, order, trade, branch, trade_history, feasible,
                 belief, prob,
                 cycle, active>>

\* traders[trade["buyer_id"]].bookkeep(trade), trade_history.append(trade),
\* then the check "money negative"; a GDZ trader whose strategic order has
\* traded goes on to its second order
BookkeepBuyer ==
  /\ pc = "bookkeep_buyer"
  /\ TraderBookkeep(trade.buyer_id, trade)
  /\ IF BookkeepCompletes(trade.buyer_id, trade)
       THEN /\ trade_history' = Append(trade_history, trade)
            /\ pc' = IF \/ balance'[trade.seller_id]["money"] < 0
                        \/ balance'[trade.buyer_id]["money"] < 0
                       THEN "raised"
                     ELSE IF talgo(order.tid) = "GDZ" /\ order.strategic
                       THEN "second_order"
                     ELSE "next"
       ELSE /\ trade_history' = trade_history
            /\ pc' = "raised"
  /\ UNCHANGED <<lob, alob, order_id, order, trade, branch, feasible, belief,
                 prob,
                 cycle, active>>

\* the top of the while loop: trade = None, order = None, and the trader of
\* the iteration is no longer the one asked
NextIteration ==
  /\ pc = "next"
  /\ order' = NoOrder
  /\ trade' = NoTrade
  /\ branch' = NoBranch
  /\ pc' = "loop"
  /\ prob' = NoProb
  /\ trader' = 0
  /\ UNCHANGED <<lob, alob, balance, order_id, utility, blotter, trade_history,
                 plan, feasible, belief, trader_list, zip, active>>

Next ==
  \/ ResetAllocations
  \/ \E tid \in Traders, otype \in Sides, ptype \in Goods, price \in Prices,
        quantity \in Quantities : SubmitOrder(tid, otype, ptype, price, quantity)
  \/ BookkeepSeller
  \/ BookkeepBuyer
  \/ NextIteration

Spec == Init /\ [][Next]_vars

(***************************************************************************)
(* The exchange and the traders called outside the contract of the driver: *)
(* an order whose side is neither "bid" nor "ask", and bookkeep on a       *)
(* trader who took no part in the trade.  The orders are unit orders, as   *)
(* every get_order builds them.                                            *)
(***************************************************************************)
\* a side that is neither "bid" nor "ask"
InvalidSide == "hold"

\* bookkeep(trade) on a trader tid who is neither buyer nor seller of the
\* trade that process_order has just returned; the call raises or returns
StrayBookkeep(tid) ==
  /\ pc = "bookkeep_seller"
  /\ tid \notin {trade.buyer_id, trade.seller_id}
  /\ TraderBookkeep(tid, trade)
  /\ pc' = IF BookkeepCompletes(tid, trade) THEN "returned" ELSE "raised"
  /\ UNCHANGED <<lob, alob, order_id, order, trade, branch, trade_history, feasible,
                 belief, prob,
                 cycle, active>>

NextContract ==
  \/ ResetAllocations
  \/ \E tid \in Traders, otype \in Sides \cup {InvalidSide}, ptype \in Goods,
        price \in Prices : SubmitOrder(tid, otype, ptype, price, 1)
  \/ BookkeepSeller
  \/ BookkeepBuyer
  \/ \E tid \in Traders : StrayBookkeep(tid)
  \/ NextIteration

SpecContract == Init /\ [][NextContract]_vars

(***************************************************************************)
(* The driver with traders that follow Trader_GDZ.get_order: a regular     *)
(* unit order while no plan is open, the strategic order of                *)
(* arbitrage_opportunity together with the second order the driver asks    *)
(* for once it has traded, and the re-quoted arbitrage order while the     *)
(* plan is open.                                                           *)
(***************************************************************************)
\* the admissible prices among Prices
InRange == {p \in Prices : ~OutOfRange(p)}

\* the last order id of a behaviour that starts after the first trade of
\* the period, when four orders have been handed in
MaxPlanOrders == MaxOrders + 5

\* the first trade of a period: one unit of the good from the trader who is
\* endowed with it to trader 3, whose bid has crossed the resting ask
FirstTrade(seller_id, good, paid) ==
  Trade(3, seller_id, paid, 1, good, FALSE, Taker("bid", 3, seller_id))

\* the driver at the head of its loop once the trade tr, the first of the
\* period, has been bookkept; the two orders before those of the trade
\* were priced out of range
AfterFirstTrade(tr) ==
  LET bal == [t \in Traders |-> Bookkeep(Endowment(ttype(t)), t, tr)]
  IN /\ lob = EmptyLob
     /\ alob = AnonLob(EmptyLob)
     /\ balance = bal
     /\ utility = [t \in Traders |-> calc_utility(ttype(t), bal[t])]
     /\ blotter = [t \in Traders |->
                     IF t \in {tr.buyer_id, tr.seller_id} THEN <<tr>> ELSE <<>>]
     /\ trade_history = <<tr>>
     /\ order_id = 5
     /\ order = NoOrder
     /\ trade = NoTrade
     /\ pc = "loop"
     /\ branch = NoBranch
     /\ strategic_order = [t \in Traders |-> NoOrder]
     /\ arbitrage_order = [t \in Traders |-> NoOrder]
     /\ arbitrage_trades = [t \in Traders |-> <<>>]
     /\ rejected_trades = [t \in Traders |-> <<>>]
     /\ feasible = NoCall
     /\ NoBelief

\* the driver at the head of its loop with a resting bid that its owner can
\* no longer pay: trader 3 has bought a unit of X from trader 1 at the
\* highest price (orders 1 and 2), has left a bid for X at that price
\* (order 3) and has then taken the ask of trader 2 for Y at the lowest
\* price (orders 4 and 5)
AfterStaleBid ==
  LET tr1 == FirstTrade(1, "X", maxprice - 1)
      tr2 == FirstTrade(2, "Y", minprice + 1)
      bal1 == [t \in Traders |-> Bookkeep(Endowment(ttype(t)), t, tr1)]
      bal2 == [t \in Traders |-> Bookkeep(bal1[t], t, tr2)]
      bid == [Order(3, 3, "bid", "X", maxprice - 1, 1) EXCEPT !.accepted = TRUE]
  IN /\ lob = PutOrder(EmptyLob, bid)
     /\ alob = AnonLob(lob)
     /\ balance = bal2
     /\ utility = [t \in Traders |-> calc_utility(ttype(t), bal2[t])]
     /\ blotter = [t \in Traders |->
                     IF t = 1 THEN <<tr1>> ELSE IF t = 2 THEN <<tr2>> ELSE <<tr1, tr2>>]
     /\ trade_history = <<tr1, tr2>>
     /\ order_id = 6
     /\ order = NoOrder
     /\ trade = NoTrade
     /\ pc = "loop"
     /\ branch = NoBranch
     /\ strategic_order = [t \in Traders |-> NoOrder]
     /\ arbitrage_order = [t \in Traders |-> NoOrder]
     /\ arbitrage_trades = [t \in Traders |-> <<>>]
     /\ rejected_trades = [t \in Traders |-> <<>>]
     /\ feasible = NoCall
     /\ NoBelief

\* the states from which a plan can be made, each of them a reachable state
\* of the driver: trader 1 has sold a unit of X to trader 3 at one of the
\* admissible prices, or the bid of trader 3 has become stale
InitPlan ==
  \/ \E paid \in InRange : AfterFirstTrade(FirstTrade(1, "X", paid))
  \/ AfterStaleBid

\* a plan whose second order may have any price
Profit_Unchecked(opposite_action, price, x) == 1

\* profits of arbitrage_opportunity for the candidate price x, when the
\* resting order taken at price lies on the side opposite_action
Profit(opposite_action, price, x) ==
  IF opposite_action = "ask" THEN x - price ELSE price - x

\* a trader that forgets its plan when it is asked for an order
PlanPending_Never(strategic) == FALSE

\* get_order, "elif self.strategic_order is not None"
PlanPending(strategic) == strategic # NoOrder

\* Trader.utility_gain_order: the utility after the order has traded minus
\* the utility now
utility_gain_order(tp, bal, o) ==
  LET paid == o.price * o.quantity
      new_balance ==
        IF o.otype = "ask"
          THEN [bal EXCEPT !["money"] = @ + paid, ![o.ptype] = @ - o.quantity]
          ELSE [bal EXCEPT !["money"] = @ - paid, ![o.ptype] = @ + o.quantity]
  IN calc_utility(tp, new_balance) - calc_utility(tp, bal)

\* a bid that is shouted whatever the money of the trader
ShoutPrice_AnyMoney(action, price, money, view, good) ==
  LET best_bid == OrElse(view[good]["bid"][1], 0)
      best_ask == OrElse(view[good]["ask"][1], 200)
  IN IF action = "bid"
       THEN IF price = best_bid /\ best_ask - best_bid <= 1 THEN best_ask
            ELSE IF price < best_bid THEN None
            ELSE price
       ELSE IF price = best_ask /\ best_ask - best_bid <= 1 THEN best_bid
            ELSE IF price > best_ask THEN None
            ELSE price

\* regular_order, the shout price made of the marked-up price of the belief
\* (None when the shout is dropped)
ShoutPrice(action, price, money, view, good) ==
  LET best_bid == OrElse(view[good]["bid"][1], 0)
      best_ask == OrElse(view[good]["ask"][1], 200)
  IN IF action = "bid"
       THEN IF price > money THEN None
            ELSE IF price = best_bid /\ best_ask - best_bid <= 1 THEN best_ask
            ELSE IF price < best_bid THEN None
            ELSE price
       ELSE IF price = best_ask /\ best_ask - best_bid <= 1 THEN best_bid
            ELSE IF price > best_ask THEN None
            ELSE price

\* the candidate of regular_order for the feasible choice c, price being
\* round(e_price[good] + offset) with the markup of 0: the utility gain of
\* the unit order at the shout price, the shout price None when it is dropped
candidate(tp, bal, view, c, price) ==
  LET shout == ShoutPrice(c[1], price, bal["money"], view, c[2])
  IN [gain |-> IF shout = None THEN 0
               ELSE utility_gain_order(tp, bal, Order(0, 0, c[1], c[2], shout, 1)),
      action |-> c[1],
      good |-> c[2],
      price |-> shout]

\* "if shout_price is not None", the candidate is appended
Kept(c) == c.price # None

\* possible_orders: the candidates that were not dropped, in the order of
\* the feasible choices; offer[c] is the price drawn for the choice c
possible_orders(tp, bal, view, offer) ==
  LET choices == get_feasible_choices(tp, bal, view, FALSE, FALSE)
  IN SelectSeq([i \in 1 .. Len(choices) |->
                  candidate(tp, bal, view, choices[i], offer[choices[i]])],
               Kept)

\* a trader that takes its first candidate
best_First(possible) == possible[1]

\* max(possible_orders, key=itemgetter(0)): the first of the candidates of
\* the largest gain
best(possible) ==
  possible[CHOOSE i \in 1 .. Len(possible) :
             /\ \A j \in 1 .. Len(possible) : possible[j].gain <= possible[i].gain
             /\ \A j \in 1 .. Len(possible) :
                  possible[j].gain = possible[i].gain => i <= j]

\* a trader that shouts whatever the gain
Worthwhile_Always(gain) == TRUE

\* "if best[0] >= 0"
Worthwhile(gain) == gain >= 0

\* the body of Trader_eGD.get_order and of regular_order: the unit order of
\* the best candidate, which takes the id oid in the driver, or NoOrder for
\* None (no candidate, or a negative gain)
regular_order(tid, bal, view, offer, oid) ==
  LET possible == possible_orders(ttype(tid), bal, view, offer)
      chosen(b) == IF Worthwhile(b.gain)
                     THEN Order(oid, tid, b.action, b.good, b.price, 1)
                     ELSE NoOrder
  IN IF possible = <<>> THEN NoOrder ELSE chosen(best(possible))

\* the prices round(e_price[good] + offset) that the loop over the feasible
\* choices of a trader may draw from the set prices, one for each choice
Offers(tid, prices) ==
  LET choices == get_feasible_choices(ttype(tid), balance[tid], publish_alob, FALSE, FALSE)
  IN [{choices[i] : i \in 1 .. Len(choices)} -> prices]

\* get_order of a trader without open plan: regular_order returns the unit
\* order of its best candidate when the utility gain is not negative
RegularOrder(tid, offer) ==
  /\ pc = "loop"
  /\ order_id <= MaxPlanOrders
  /\ ~PlanPending(strategic_order[tid])
  /\ \E o \in {regular_order(tid, balance[tid], publish_alob, offer, order_id)} :
       /\ o # NoOrder
       /\ ProcessStep(o)
  /\ UNCHANGED plan

\* self.min_probability, in percent
min_probability == 50

\* the values prob may take for a candidate price, in percent: the estimate
\* of the splines is left open, just below or at the minimal probability
Probs == {min_probability - 1, min_probability}

\* a probability that counts whatever its value
AboveMinimum_Any(p) == p

\* np.where(prob >= self.min_probability, prob, 0) for one candidate price
AboveMinimum(p) == IF p >= min_probability THEN p ELSE 0

\* expected_profits = profits * prob of arbitrage_opportunity
expected_profits(opposite_action, price, estimate) ==
  [x \in UnwindPrices |->
     Profit(opposite_action, price, x) * AboveMinimum(estimate[x])]

\* np.argmax: the first index of the largest value
argmax(f) ==
  CHOOSE x \in DOMAIN f :
    /\ \A y \in DOMAIN f : f[y] <= f[x]
    /\ \A y \in DOMAIN f : f[y] = f[x] => x <= y

\* get_order of a trader without open plan: arbitrage_opportunity finds a
\* resting order to take and the price of the largest expected profit, and
\* commits the plan when that profit is positive
StrategicOrder(tid, estimate) ==
  /\ pc = "loop"
  /\ order_id <= MaxPlanOrders
  /\ talgo(tid) = "GDZ"
  /\ ~PlanPending(strategic_order[tid])
  /\ LET view == publish_alob
         choices == get_feasible_choices(ttype(tid), balance[tid], view, FALSE, TRUE)
     IN \E i \in 1 .. Len(choices) :
          LET action == choices[i][1]
              good == choices[i][2]
              opposite_action == IF action = "ask" THEN "bid" ELSE "ask"
              price == view[good][opposite_action][1]
              expected == expected_profits(opposite_action, price, estimate)
              optimal_price == argmax(expected)
              first == [Order(1, tid, action, good, price, 1)
                          EXCEPT !.strategic = TRUE, !.target_price = optimal_price]
              next_order == [Order(1, tid, opposite_action, good, optimal_price, 1)
                               EXCEPT !.arbitrage = TRUE]
              o == [first EXCEPT !.oid = order_id]
          IN /\ price # None
             /\ expected[optimal_price] > 0
             /\ strategic_order' = [strategic_order EXCEPT ![tid] = first]
             /\ arbitrage_order' = [arbitrage_order EXCEPT ![tid] = next_order]
             /\ ExchangeStep(o)
             /\ pc' = AfterProcess(ProcessOrder(lob, balance, o))
             /\ prob' = estimate
  /\ UNCHANGED <<arbitrage_trades, rejected_trades, belief, cycle, active>>

\* an arbitrage order that joins the resting order at its price
Requote_Joins(arbitrage_action, price_orderbook, old_price) ==
  IF price_orderbook = None THEN old_price ELSE price_orderbook

\* get_order of a trader with an open plan, the price of the new arbitrage
\* order: the old price when its side of the book is empty, else one above
\* the resting bid or one below the resting ask
Requote(arbitrage_action, price_orderbook, old_price) ==
  IF price_orderbook = None THEN old_price
  ELSE IF arbitrage_action = "bid" THEN price_orderbook + 1
  ELSE price_orderbook - 1

\* get_order of a trader with an open plan: the arbitrage order again at its
\* old price when its side of the book is empty, one tick better than the
\* resting order when that has another price, nothing when the price is its own
ArbitrageOrder(tid) ==
  /\ pc = "loop"
  /\ order_id <= MaxPlanOrders
  /\ talgo(tid) = "GDZ"
  /\ PlanPending(strategic_order[tid])
  /\ LET target_price == arbitrage_order[tid].price
         good == strategic_order[tid].ptype
         arbitrage_action == IF strategic_order[tid].otype = "ask" THEN "bid" ELSE "ask"
         price_orderbook == publish_alob[good][arbitrage_action][1]
         new_price == Requote(arbitrage_action, price_orderbook, target_price)
         new_arbitrage_order ==
           [Order(order_id, tid, arbitrage_action, good, new_price, 1)
              EXCEPT !.arbitrage = TRUE]
     IN /\ price_orderbook # target_price
        /\ ProcessStep(new_arbitrage_order)
        \* self.arbitrage_order is the object the driver goes on to mark
        /\ arbitrage_order' = [arbitrage_order EXCEPT ![tid] = order']
  /\ UNCHANGED <<strategic_order, arbitrage_trades, rejected_trades>>

\* the driver after the trade of a strategic order: get_order with
\* second_order = True returns self.arbitrage_order, which is processed and
\* then given its order id
SecondOrder ==
  /\ pc = "second_order"
  /\ LET tid == order.tid
         a_order == arbitrage_order[tid]
         r == ProcessOrder(lob, balance, a_order)
         numbered == [a_order EXCEPT !.oid = order_id]
     IN IF a_order = NoOrder
          THEN /\ pc' = "raised"
               /\ UNCHANGED <<lob, alob, balance, trade, branch, order_id, arbitrage_order>>
          ELSE /\ trade' = r.trade
               /\ lob' = IF /\ Has(r.lob, a_order.ptype, a_order.otype)
                            /\ r.lob[a_order.ptype][a_order.otype] = a_order
                           THEN PutOrder(r.lob, numbered) ELSE r.lob
               \* alob = exchange.publish_alob() unless successful_order == False
               /\ alob' = IF r.successful_order THEN AnonLob(r.lob) ELSE alob
               /\ branch' = [process |-> r.branch, admit |-> r.admit]
               /\ balance' = TradersAfterProcess(balance, r)
               /\ arbitrage_order' = [arbitrage_order EXCEPT ![tid] = numbered]
               /\ order_id' = order_id + 1
               /\ pc' = IF r.raised THEN "raised" ELSE "next"
  /\ UNCHANGED <<order, utility, blotter, trade_history, strategic_order,
                 arbitrage_trades, rejected_trades, feasible, belief, prob,
                 cycle, active>>

NextPlan ==
  \/ ResetAllocations
  \/ \E tid \in Traders : \E offer \in Offers(tid, InRange) : RegularOrder(tid, offer)
  \/ \E tid \in Traders, estimate \in [UnwindPrices -> Probs] :
        StrategicOrder(tid, estimate)
  \/ \E tid \in Traders : ArbitrageOrder(tid)
  \/ BookkeepSeller
  \/ BookkeepBuyer
  \/ SecondOrder
  \/ NextIteration

SpecPlan == InitPlan /\ [][NextPlan]_vars

(***************************************************************************)
(* get_feasible_choices on its own.  The calls are made in the states the  *)
(* driver is in after trader 1 has sold Sold units of X to trader 3 at     *)
(* the price paid and trader 3 has left a bid for X and a bid for Y in the *)
(* book, each at one of the admissible prices or not at all.               *)
(***************************************************************************)
\* the book with the bids of trader 3 at px for X and at py for Y
BidBook(px, py) ==
  LET bid(g, price, oid) ==
        [Order(oid, 3, "bid", g, price, 1) EXCEPT !.accepted = TRUE]
  IN [g \in Goods |->
        IF g = "X" THEN (IF px = None THEN EmptyDict ELSE ("bid" :> bid("X", px, 3)))
        ELSE (IF py = None THEN EmptyDict ELSE ("bid" :> bid("Y", py, 4)))]

InitChoices ==
  /\ \E px \in InRange \cup {None}, py \in InRange \cup {None} :
       lob = BidBook(px, py)
  /\ alob = AnonLob(lob)
  /\ \E sold \in {0, 1}, paid \in InRange :
       LET bal == [t \in Traders |-> Endowment(ttype(t))]
           tr == FirstTrade(1, "X", paid)
           after == [t \in Traders |-> Bookkeep(bal[t], t, tr)]
       IN IF sold = 0
            THEN /\ paid = minprice + 1
                 /\ balance = bal
                 /\ utility = [t \in Traders |-> 0]
                 /\ blotter = [t \in Traders |-> <<>>]
                 /\ trade_history = <<>>
            ELSE /\ balance = after
                 /\ utility = [t \in Traders |-> calc_utility(ttype(t), after[t])]
                 /\ blotter = [t \in Traders |-> IF t = 2 THEN <<>> ELSE <<tr>>]
                 /\ trade_history = <<tr>>
  /\ order_id = 5
  /\ order = NoOrder
  /\ trade = NoTrade
  /\ pc = "loop"
  /\ branch = NoBranch
  /\ strategic_order = [t \in Traders |-> NoOrder]
  /\ arbitrage_order = [t \in Traders |-> NoOrder]
  /\ arbitrage_trades = [t \in Traders |-> <<>>]
  /\ rejected_trades = [t \in Traders |-> <<>>]
  /\ feasible = NoCall
  /\ NoBelief

\* choices = self.get_feasible_choices(lob, do_nothing) of trader tid with
\* the published view
FeasibleChoices(tid, do_nothing) ==
  /\ pc = "loop"
  /\ feasible = NoCall
  /\ feasible' =
       [tid |-> tid, do_nothing |-> do_nothing,
        choices |-> get_feasible_choices(ttype(tid), balance[tid], publish_alob,
                                         do_nothing, FALSE)]
  /\ UNCHANGED <<lob, alob, balance, order_id, order, trade, pc, branch,
                 utility, blotter, trade_history, plan, belief, prob,
                 cycle, active>>

NextChoices ==
  \E tid \in Traders, do_nothing \in BOOLEAN : FeasibleChoices(tid, do_nothing)

SpecChoices == InitChoices /\ [][NextChoices]_vars

(***************************************************************************)
(* The driver with the calls of respond.  The behaviours start at the head *)
(* of the loop after a period boundary, when PastOrders orders have been   *)
(* handed in: orders outside the price range first, then asks of trader 1  *)
(* for X that trader 3 has taken and bids of trader 3 for X that trader 1  *)
(* has taken, all at the lowest price.                                     *)
(***************************************************************************)
\* the orders handed in before the first state
PastOrders == 2 * memory + 1

\* the last order id of these behaviours
MaxBeliefOrders == PastOrders + MaxOrders - 2

\* the observations of X that the past orders have left: with lead = 1 an
\* ask at the highest price that a second ask has improved on, then asks
\* taken by a bid, then bids taken by an ask, each of them the last
\* observation of the order that took it
PastHistory(lead, asks, bids) ==
  LET used == 2 * (asks + bids) + lead
      first == PastOrders - used
      low == <<minprice + 1, 1>>
      high == <<maxprice - 1, 1>>
      ask(i) == Observation(low, TRUE, "ask", first + lead + 2 * i)
      bid(i) == Observation(low, TRUE, "bid", first + lead + 2 * (asks + i))
  IN (IF lead = 1 THEN <<Observation(high, FALSE, "ask", first + 2)>> ELSE <<>>)
     \o [i \in 1 .. asks |-> ask(i)] \o [i \in 1 .. bids |-> bid(i)]

\* the pasts of the first states: none, the numbers of observations around
\* those that equilibrium_price asks for, and a full memory
Pasts ==
  {<<0, 0, 0>>, <<0, 4, 9>>, <<0, 4, 10>>, <<0, 5, 9>>, <<1, memory \div 2, memory \div 2>>}

InitBelief ==
  /\ lob = EmptyLob
  /\ alob = EmptyAlob
  /\ balance = [t \in Traders |-> Endowment(ttype(t))]
  /\ order_id = PastOrders + 1
  /\ order = NoOrder
  /\ trade = NoTrade
  /\ pc = "loop"
  /\ branch = NoBranch
  /\ utility = [t \in Traders |-> 0]
  /\ blotter = [t \in Traders |-> <<>>]
  /\ trade_history = <<>>
  /\ strategic_order = [t \in Traders |-> NoOrder]
  /\ arbitrage_order = [t \in Traders |-> NoOrder]
  /\ arbitrage_trades = [t \in Traders |-> <<>>]
  /\ rejected_trades = [t \in Traders |-> <<>>]
  /\ feasible = NoCall
  /\ \E past \in Pasts :
       history = [g \in Goods |->
                    IF g = "X" THEN PastHistory(past[1], past[2], past[3]) ELSE <<>>]
  /\ last_lob = [t \in Traders |-> NoneView]
  /\ new_turn = FALSE
  /\ e_price = [g \in Goods |-> [spline |-> FALSE, price |-> FallbackLow(g)]]
  /\ responder = 0
  /\ prob = NoProb
  /\ NoCycle

\* lob = exchange.publish_alob() before get_order
PublishAlob ==
  /\ pc = "loop"
  /\ order_id <= MaxBeliefOrders
  /\ alob' = AnonLob(lob)
  /\ pc' = "get_order"
  /\ UNCHANGED <<lob, balance, order_id, order, trade, branch, utility, blotter,
                 trade_history, plan, feasible, belief, prob,
                 cycle, active>>

\* get_order is handed the view and returns an order without flags; the
\* exchange processes it and an accepted order sets new_turn and starts the
\* loop over the traders
BeliefOrder(tid, otype, ptype, price, quantity) ==
  /\ pc = "get_order"
  /\ LET o == Order(order_id, tid, otype, ptype, price, quantity)
         r == ProcessOrder(lob, balance, o)
     IN /\ ExchangeStep(o)
        /\ IF r.successful_order
             THEN /\ new_turn' = TRUE
                  /\ responder' = 1
                  /\ pc' = "respond"
             ELSE /\ pc' = AfterProcess(r)
                  /\ UNCHANGED <<new_turn, responder>>
  /\ UNCHANGED <<plan, history, last_lob, e_price, prob,
                 cycle, active>>

\* a flag that the first call of respond leaves set
NewTurnAfterRespond_StaysSet == TRUE

\* Trader_eGD.new_turn = False
NewTurnAfterRespond == FALSE

\* traders[i].respond(time, alob, order) for i = responder; after the last
\* trader the driver goes on to the bookkeeping of the trade.  An exception
\* of the splines keeps the old e_price.
Respond ==
  /\ pc = "respond"
  /\ LET tid == responder
         good == order.ptype
     IN IF talgo(tid) \in {"eGD", "GDZ"} /\ new_turn
          THEN /\ history' = [history EXCEPT
                               ![good] = HistoryAfterRespond(@, alob, last_lob[tid], order)]
               /\ last_lob' = [last_lob EXCEPT ![tid] = alob]
               /\ new_turn' = NewTurnAfterRespond
               /\ \E p \in equilibrium_price(good, history'[good])
                           \cup {e \in {e_price[good]} : e.spline} :
                    e_price' = [e_price EXCEPT ![good] = p]
          ELSE UNCHANGED <<history, last_lob, new_turn, e_price>>
  /\ IF responder < Cardinality(Traders)
       THEN /\ responder' = responder + 1
            /\ pc' = "respond"
       ELSE /\ responder' = 0
            /\ pc' = IF trade # NoTrade THEN "bookkeep_seller" ELSE "next"
  /\ UNCHANGED <<lob, alob, balance, order_id, order, trade, branch, utility,
                 blotter, trade_history, plan, feasible, prob,
                 cycle, active>>

NextBelief ==
  \/ ResetAllocations
  \/ PublishAlob
  \/ \E tid \in Traders, otype \in Sides, ptype \in Goods, price \in InRange,
        quantity \in Quantities : BeliefOrder(tid, otype, ptype, price, quantity)
  \/ Respond
  \/ BookkeepSeller
  \/ BookkeepBuyer
  \/ NextIteration

SpecBelief == InitBelief /\ [][NextBelief]_vars

(***************************************************************************)
(* The driver with a resting bid that its owner can no longer pay beside a *)
(* resting ask for the same good.  Trader 3 has bid for a unit of Y at the *)
(* lowest price (order 1) and trader 2 has sold it (order 2); trader 2 has *)
(* bid for X with the money (order 3) and has then spent it on the unit of *)
(* Y that trader 3 offered (orders 4 and 5); trader 1 has left an ask for  *)
(* X at the highest price (order 6).                                       *)
(***************************************************************************)
\* the last order id of a behaviour that starts after these six orders
MaxStaleOrders == MaxOrders + 5

AfterStaleBidAndAsk ==
  LET low == minprice + 1
      tr1 == Trade(3, 2, low, 1, "Y", FALSE, Taker("ask", 3, 2))
      tr2 == Trade(2, 3, low, 1, "Y", FALSE, Taker("bid", 2, 3))
      bid == [Order(3, 2, "bid", "X", low, 1) EXCEPT !.accepted = TRUE]
      ask == [Order(6, 1, "ask", "X", maxprice - 1, 1) EXCEPT !.accepted = TRUE]
      bal == [t \in Traders |->
                Bookkeep(Bookkeep(Endowment(ttype(t)), t, tr1), t, tr2)]
  IN /\ lob = PutOrder(PutOrder(EmptyLob, bid), ask)
     /\ alob = AnonLob(lob)
     /\ balance = bal
     /\ utility = [t \in Traders |-> calc_utility(ttype(t), bal[t])]
     /\ blotter = [t \in Traders |-> IF t = 1 THEN <<>> ELSE <<tr1, tr2>>]
     /\ trade_history = <<tr1, tr2>>
     /\ order_id = 7
     /\ order = NoOrder
     /\ trade = NoTrade
     /\ pc = "loop"
     /\ branch = NoBranch
     /\ strategic_order = [t \in Traders |-> NoOrder]
     /\ arbitrage_order = [t \in Traders |-> NoOrder]
     /\ arbitrage_trades = [t \in Traders |-> <<>>]
     /\ rejected_trades = [t \in Traders |-> <<>>]
     /\ feasible = NoCall
     /\ NoBelief

\* one iteration of the while loop up to the bookkeeping, as SubmitOrder
LateOrder(tid, otype, ptype, price, quantity) ==
  /\ pc = "loop"
  /\ order_id <= MaxStaleOrders
  /\ ProcessStep(Order(order_id, tid, otype, ptype, price, quantity))
  /\ UNCHANGED plan

NextStale ==
  \/ ResetAllocations
  \/ \E tid \in Traders, otype \in Sides, ptype \in Goods, price \in Prices,
        quantity \in Quantities : LateOrder(tid, otype, ptype, price, quantity)
  \/ BookkeepSeller
  \/ BookkeepBuyer
  \/ NextIteration

SpecStale == AfterStaleBidAndAsk /\ [][NextStale]_vars

(***************************************************************************)
(* The driver with traders that follow Trader_eGD.get_order, from the      *)
(* states it is in after the first four orders of a period.  The belief    *)
(* e_price and the random offset are left open: the price of a candidate   *)
(* is any of ShoutPrices.                                                  *)
(***************************************************************************)
\* the values of round(e_price[good] + offset): the lowest price, the tick
\* above it and the highest price
ShoutPrices == {minprice + 1, minprice + 2, maxprice - 1}

\* the last order id of a behaviour of SpecShout
MaxShoutOrders == MaxOrders + 1

\* a trader that the negative gain of its best candidate sets inactive
ActiveAfterNegative_Inactive(a) == FALSE

\* "elif best[0] < 0": the assignment "self.active = False" is a comment,
\* the trader stays as it is
ActiveAfterNegative(a) == a

\* "if best[0] >= 0 ... elif best[0] < 0" is reached with a negative gain
NegativeBest(tid, offer) ==
  LET possible == possible_orders(ttype(tid), balance[tid], publish_alob, offer)
  IN active[tid] /\ possible # <<>> /\ best(possible).gain < 0

\* one iteration of the while loop with an eGD trader: get_order returns
\* the order of regular_order when the trader is active, and the exchange
\* processes it; when it returns None the driver goes on to the next
\* iteration
GetOrder(tid, offer) ==
  /\ pc = "loop"
  /\ \E o \in {IF active[tid]
                 THEN regular_order(tid, balance[tid], publish_alob, offer, order_id)
                 ELSE NoOrder} :
       IF o # NoOrder
         THEN /\ order_id <= MaxShoutOrders
              /\ ExchangeStep(o)
              /\ pc' = AfterProcess(ProcessOrder(lob, balance, o))
              /\ UNCHANGED <<belief, prob, active>>
         ELSE /\ pc' = "next"
              /\ active' = [active EXCEPT
                              ![tid] = IF NegativeBest(tid, offer)
                                         THEN ActiveAfterNegative(@) ELSE @]
              /\ UNCHANGED <<lob, alob, balance, order_id, order, trade, branch,
                             utility, blotter, trade_history, feasible, belief,
                             prob>>
  /\ trader' = tid
  /\ UNCHANGED <<plan, trader_list, zip>>

NextShout ==
  \/ ResetAllocations
  \/ \E tid \in Traders : \E offer \in Offers(tid, ShoutPrices) : GetOrder(tid, offer)
  \/ BookkeepSeller
  \/ BookkeepBuyer
  \/ NextIteration

\* the quotes an order may have left: trader 3 bids at the lowest price,
\* the trader endowed with a good asks one tick above it or at the highest
Quotes ==
  {<<3, "bid", "X", minprice + 1>>, <<3, "bid", "Y", minprice + 1>>,
   <<1, "ask", "X", minprice + 2>>, <<1, "ask", "X", maxprice - 1>>,
   <<2, "ask", "Y", minprice + 2>>, <<2, "ask", "Y", maxprice - 1>>}

\* the book after the order q with the id oid, which rests as a unit order
\* unless there is none (<<>>)
Quoted(book, q, oid) ==
  IF q = <<>> THEN book
  ELSE PutOrder(book, [Order(oid, q[1], q[2], q[3], q[4], 1) EXCEPT !.accepted = TRUE])

\* the driver at the head of its loop after the first four orders of a
\* period: trader 3 has bought a unit of X from trader 1 (orders 1 and 2);
\* then it has bought a unit of Y from trader 2 as well, or each of the
\* orders 3 and 4 has left a quote in the book or none
AfterFourOrders ==
  /\ \E paid \in InRange, bought \in BOOLEAN, paidY \in InRange :
       LET tr1 == FirstTrade(1, "X", paid)
           tr2 == FirstTrade(2, "Y", paidY)
           bal1 == [t \in Traders |-> Bookkeep(Endowment(ttype(t)), t, tr1)]
           bal2 == [t \in Traders |-> Bookkeep(bal1[t], t, tr2)]
       IN IF bought
            THEN /\ lob = EmptyLob
                 /\ balance = bal2
                 /\ blotter = [t \in Traders |->
                                 IF t = 1 THEN <<tr1>>
                                 ELSE IF t = 2 THEN <<tr2>> ELSE <<tr1, tr2>>]
                 /\ trade_history = <<tr1, tr2>>
            ELSE /\ paidY = minprice + 1
                 /\ \E q1 \in Quotes \cup {<<>>}, q2 \in Quotes \cup {<<>>} :
                      /\ (q1 # <<>> /\ q2 # <<>>) => <<q1[2], q1[3]>> # <<q2[2], q2[3]>>
                      /\ lob = Quoted(Quoted(EmptyLob, q1, 3), q2, 4)
                 /\ balance = bal1
                 /\ blotter = [t \in Traders |-> IF t = 2 THEN <<>> ELSE <<tr1>>]
                 /\ trade_history = <<tr1>>
  /\ utility = [t \in Traders |-> calc_utility(ttype(t), balance[t])]
  /\ alob = AnonLob(lob)
  /\ order_id = 5
  /\ order = NoOrder
  /\ trade = NoTrade
  /\ pc = "loop"
  /\ branch = NoBranch
  /\ strategic_order = [t \in Traders |-> NoOrder]
  /\ arbitrage_order = [t \in Traders |-> NoOrder]
  /\ arbitrage_trades = [t \in Traders |-> <<>>]
  /\ rejected_trades = [t \in Traders |-> <<>>]
  /\ feasible = NoCall
  /\ NoBelief

SpecShout == AfterFourOrders /\ [][NextShout]_vars

(***************************************************************************)
(* Trader_ZIP: the timestep of the driver with ZIP traders.  Every trader  *)
(* commits to a choice at the top of the timestep, the traders are then    *)
(* picked without replacement, and all traders respond to an accepted      *)
(* order.  shout_price counts halves, so that round meets its ties.        *)
(***************************************************************************)
\* the shout price of a good, in halves, that price_up and price_down may
\* leave: 21.5 for X and 11.5 for Y, a small step from the first shouts
ZIPShouts(g) == {2 * FallbackLow(g) + 3}

\* the orders of a period of ZIP traders
MaxZIPOrders == MaxOrders + 1

\* Python's round of the float h/2: a tie goes to the even neighbour
round(h) ==
  IF h % 2 = 0 THEN h \div 2
  ELSE LET k == (h - 1) \div 2 IN IF k % 2 = 0 THEN k ELSE k + 1

\* a shout that may repeat the resting price
ImprovesBook_OrEqual(action, price, view, good) ==
  \/ action = "bid" /\ price >= OrElse(view[good]["bid"][1], 0)
  \/ action = "ask" /\ price <= OrElse(view[good]["ask"][1], 10000)

\* "Check if it makes sense to do the order": the price beats the resting
\* price of its side, an empty cell counting as 0 or as 10000
ImprovesBook(action, price, view, good) ==
  \/ action = "bid" /\ price > OrElse(view[good]["bid"][1], 0)
  \/ action = "ask" /\ price < OrElse(view[good]["ask"][1], 10000)

\* Trader_ZIP.get_order of a trader of type tp with the committed choice ch
\* and the shout prices shout
get_order(tid, bal, view, ch, shout, oid) ==
  IF ch[1] = "do nothing" THEN NoOrder
  ELSE LET price == round(shout[ch[2]])
           o == Order(oid, tid, ch[1], ch[2], price, 1)
       IN IF /\ ImprovesBook(ch[1], price, view, ch[2])
             /\ utility_gain_order(ttype(tid), bal, o) >= 0
             /\ price > 0
            THEN o ELSE NoOrder

\* Trader_ZIP.choose_action: a buyer after "bid", a seller after "ask"
BuyerAfter(was, ch) ==
  IF ch[1] = "ask" THEN FALSE ELSE IF ch[1] = "bid" THEN TRUE ELSE was

\* the top of a timestep: every trader draws its choice from its feasible
\* choices ("do nothing" among them) in the published view, and the list of
\* the traders that may act is filled
ChooseAction(pick) ==
  /\ pc = "loop"
  /\ trader_list = {}
  /\ order_id <= MaxZIPOrders
  /\ LET choices(t) == get_feasible_choices(ttype(t), balance[t], publish_alob, TRUE, FALSE)
     IN /\ \A t \in Traders : pick[t] <= Len(choices(t))
        /\ choice' = [t \in Traders |-> choices(t)[pick[t]]]
        /\ buyer' = [t \in Traders |-> BuyerAfter(buyer[t], choices(t)[pick[t]])]
  /\ trader_list' = Traders
  /\ UNCHANGED <<lob, alob, balance, order_id, order, trade, pc, branch, utility,
                 blotter, trade_history, plan, feasible, belief, prob, trader,
                 shout_price, last_price_bid, last_price_ask, active>>

\* one iteration of the while loop over trader_list: the trader tid is
\* taken from the list and asked for its order; an accepted order sets
\* new_turn and starts the calls of respond
ZIPOrder(tid) ==
  /\ pc = "loop"
  /\ tid \in trader_list
  /\ trader_list' = trader_list \ {tid}
  /\ trader' = tid
  /\ \E o \in {get_order(tid, balance[tid], publish_alob, choice[tid],
                         shout_price[tid], order_id)} :
       IF o # NoOrder
         THEN /\ order_id <= MaxZIPOrders
              /\ ExchangeStep(o)
              /\ \E r \in {ProcessOrder(lob, balance, o)} :
                   IF r.successful_order
                     THEN /\ new_turn' = TRUE
                          /\ responder' = 1
                          /\ pc' = "respond"
                     ELSE /\ pc' = AfterProcess(r)
                          /\ UNCHANGED <<new_turn, responder>>
         ELSE /\ pc' = "next"
              /\ UNCHANGED <<lob, alob, balance, order_id, order, trade, branch,
                             utility, blotter, trade_history, feasible, new_turn,
                             responder>>
  /\ UNCHANGED <<plan, history, last_lob, e_price, prob, zip, active>>

\* respond, the bid part for a product: a previous bid price is known and
\* one of the branches that call price_down or price_up is taken
BidMoves(is_buyer, is_active, last, best_bid, shout) ==
  /\ last # None
  /\ IF best_bid = None
       THEN IF is_buyer THEN shout >= 2 * last
            ELSE (shout >= 2 * last /\ is_active) \/ shout < 2 * last
       ELSE best_bid > last /\ is_buyer /\ shout <= 2 * last /\ is_active

\* the ask part
AskMoves(is_buyer, is_active, last, best_ask, shout) ==
  /\ last # None
  /\ IF best_ask = None
       THEN IF is_buyer THEN (shout <= 2 * last /\ is_active) \/ shout > 2 * last
            ELSE shout <= 2 * last
       ELSE best_ask < last /\ ~is_buyer /\ shout >= 2 * last /\ is_active

\* the shout prices that respond may leave for a product: the random target
\* and the momentum of price_up and price_down are left open
ShoutsAfter(tid, product, view) ==
  IF \/ BidMoves(buyer[tid], active[tid], last_price_bid[tid][product],
                 view[product]["bid"][1], shout_price[tid][product])
     \/ AskMoves(buyer[tid], active[tid], last_price_ask[tid][product],
                 view[product]["ask"][1], shout_price[tid][product])
    THEN ZIPShouts(product)
    ELSE {shout_price[tid][product]}

\* traders[i].respond(time, alob, order) for i = responder: the shout price
\* of both products, then the last prices are those of the view
RespondZIP ==
  /\ pc = "respond"
  /\ \E afterX \in ShoutsAfter(responder, "X", alob),
        afterY \in ShoutsAfter(responder, "Y", alob) :
       shout_price' = [shout_price EXCEPT
                         ![responder] = [g \in Goods |-> IF g = "X" THEN afterX ELSE afterY]]
  /\ last_price_bid' = [last_price_bid EXCEPT
                          ![responder] = [g \in Goods |-> alob[g]["bid"][1]]]
  /\ last_price_ask' = [last_price_ask EXCEPT
                          ![responder] = [g \in Goods |-> alob[g]["ask"][1]]]
  /\ IF responder < Cardinality(Traders)
       THEN /\ responder' = responder + 1
            /\ pc' = "respond"
       ELSE /\ responder' = 0
            /\ pc' = IF trade # NoTrade THEN "bookkeep_seller" ELSE "next"
  /\ UNCHANGED <<lob, alob, balance, order_id, order, trade, branch, utility,
                 blotter, trade_history, plan, feasible, history, last_lob,
                 new_turn, e_price, prob, trader_list, trader, choice, buyer,
                 active>>

\* a period ends with a timestep
EndOfPeriod == trader_list = {} /\ order_id <= MaxZIPOrders /\ ResetAllocations

NextZIP ==
  \/ EndOfPeriod
  \/ \E pick \in [Traders -> 1 .. 5] : ChooseAction(pick)
  \/ \E tid \in Traders : ZIPOrder(tid)
  \/ RespondZIP
  \/ BookkeepSeller
  \/ BookkeepBuyer
  \/ NextIteration

\* the driver at the head of its loop after the first timestep of a period:
\* trader 1 has asked for X at its rounded shout price (order 1), trader 2
\* for Y (order 2), and the bid of trader 3 for X has crossed the ask of
\* trader 1 (order 3).  Every respond has stored the prices of its view, and
\* the respond of trader 3 to the crossed ask has taken its shout price down.
AfterFirstTimestep ==
  /\ \E moved \in ZIPShouts("X") :
       shout_price = [t \in Traders |-> [g \in Goods |->
                        IF t = 3 /\ g = "X" THEN moved ELSE FirstShout(t, g)]]
  /\ LET tr == FirstTrade(1, "X", round(FirstShout(1, "X")))
     IN /\ balance = [t \in Traders |-> Bookkeep(Endowment(ttype(t)), t, tr)]
        /\ blotter = [t \in Traders |-> IF t = 2 THEN <<>> ELSE <<tr>>]
        /\ trade_history = <<tr>>
  /\ lob = Quoted(EmptyLob, <<2, "ask", "Y", round(FirstShout(2, "Y"))>>, 2)
  /\ alob = AnonLob(lob)
  /\ utility = [t \in Traders |-> calc_utility(ttype(t), balance[t])]
  /\ order_id = 4
  /\ order = NoOrder
  /\ trade = NoTrade
  /\ pc = "loop"
  /\ branch = NoBranch
  /\ strategic_order = [t \in Traders |-> NoOrder]
  /\ arbitrage_order = [t \in Traders |-> NoOrder]
  /\ arbitrage_trades = [t \in Traders |-> <<>>]
  /\ rejected_trades = [t \in Traders |-> <<>>]
  /\ feasible = NoCall
  /\ history = [g \in Goods |-> <<>>]
  /\ last_lob = [t \in Traders |-> NoneView]
  /\ new_turn = TRUE
  /\ e_price = [g \in Goods |-> [spline |-> FALSE, price |-> FallbackLow(g)]]
  /\ responder = 0
  /\ prob = NoProb
  /\ trader_list = {}
  /\ trader = 0
  /\ choice = [t \in Traders |->
                 IF t = 1 THEN <<"ask", "X">>
                 ELSE IF t = 2 THEN <<"ask", "Y">> ELSE <<"bid", "X">>]
  /\ buyer = [t \in Traders |-> t = 3]
  /\ last_price_bid = [t \in Traders |-> [g \in Goods |-> alob[g]["bid"][1]]]
  /\ last_price_ask = [t \in Traders |-> [g \in Goods |-> alob[g]["ask"][1]]]
  /\ active = [t \in Traders |-> TRUE]

SpecZIP == AfterFirstTimestep /\ [][NextZIP]_vars

TypeOK ==
  /\ pc \in {"start", "loop", "bookkeep_seller", "bookkeep_buyer", "next",
            "raised", "returned", "second_order", "get_order", "respond"}
  /\ order_id \in 1 .. MaxBeliefOrders + 1
  /\ responder \in 0 .. Cardinality(Traders)
  /\ new_turn \in BOOLEAN
  /\ prob \in [UnwindPrices -> {0} \cup Probs]

(***************************************************************************)
(* Helpers of the properties.                                              *)
(***************************************************************************)
RECURSIVE SumOver(_, _, _)
SumOver(bal, item, S) ==
  IF S = {} THEN 0
  ELSE LET t == CHOOSE x \in S : TRUE
       IN bal[t][item] + SumOver(bal, item, S \ {t})

\* the holdings of one item over all traders
Total(bal, item) == SumOver(bal, item, Traders)

\* the step of the driver that hands an order to the exchange
Submitted == pc = "loop" /\ order' # NoOrder

Opposite(side) == IF side = "bid" THEN "ask" ELSE "bid"

\* the step calls process_order, for the order of get_order or for the
\* second order of a plan
Processed == Submitted \/ pc = "second_order"

\* the order handed to process_order in that step
Incoming == IF pc = "second_order" THEN arbitrage_order[order.tid] ELSE order'

(***************************************************************************)
(* C1: in every reachable state of the driver loop every trader's money,   *)
(* X holding and Y holding are >= 0.                                       *)
(***************************************************************************)
C1_NoNegativeBalances ==
  \A t \in Traders : \A item \in Items : balance[t][item] >= 0

\* a resting bid was filled completely and both parties have bookkept the
\* trade, which has left the buyer without money
C1_Witness ==
  /\ pc = "next"
  /\ trade # NoTrade
  /\ trade.buyer_id # trade.seller_id
  /\ balance[trade.buyer_id]["money"] = 0
  /\ balance[trade.seller_id][trade.ptype] < Endowment(ttype(trade.seller_id))[trade.ptype]

(***************************************************************************)
(* C2: within a period the sum of money and the sum of each good over all  *)
(* traders are what the endowments add up to whenever no trade is half     *)
(* bookkept, self-trades and partial fills included.                       *)
(***************************************************************************)
C2_Conservation ==
  pc # "bookkeep_buyer" =>
    \A item \in Items :
      Total(balance, item) = Total([t \in Traders |-> Endowment(ttype(t))], item)

\* a partial fill between two traders has been bookkept by both
C2_Witness ==
  /\ pc = "next"
  /\ branch.process = "partial"
  /\ trade.buyer_id # trade.seller_id
  /\ trade.quantity < MaxQty
  /\ balance[trade.buyer_id][trade.ptype] > 0

(***************************************************************************)
(* C3 as claimed: for every trade that both counterparties bookkeep, the   *)
(* seller's money grows by price*quantity and its holding of the good      *)
(* shrinks by quantity, the buyer's money shrinks by price*quantity and    *)
(* its holding of the good grows by quantity.                              *)
(***************************************************************************)
SellerCredited ==
  LET t == trade.seller_id IN
  /\ balance'[t]["money"] = balance[t]["money"] + trade.price * trade.quantity
  /\ balance'[t][trade.ptype] = balance[t][trade.ptype] - trade.quantity

BuyerDebited ==
  LET t == trade.buyer_id IN
  /\ balance'[t]["money"] = balance[t]["money"] - trade.price * trade.quantity
  /\ balance'[t][trade.ptype] = balance[t][trade.ptype] + trade.quantity

OthersUntouched(t) ==
  /\ \A u \in Traders \ {t} : balance'[u] = balance[u]
  /\ \A item \in Items \ {"money", trade.ptype} : balance'[t][item] = balance[t][item]

C3_Original ==
  [][/\ pc = "bookkeep_seller" => SellerCredited
     /\ pc = "bookkeep_buyer" => BuyerDebited]_vars

(***************************************************************************)
(* C3 amended: the transfer holds for every trade between two different    *)
(* traders; a trade whose buyer is its seller leaves all balances as they  *)
(* were.  The bookkeeping of one party touches nothing else.               *)
(***************************************************************************)
C3_Transfer ==
  [][/\ (pc = "bookkeep_seller" /\ trade.buyer_id # trade.seller_id)
          => SellerCredited /\ OthersUntouched(trade.seller_id)
     /\ (pc = "bookkeep_buyer" /\ trade.buyer_id # trade.seller_id)
          => BuyerDebited /\ OthersUntouched(trade.buyer_id)
     /\ (pc \in {"bookkeep_seller", "bookkeep_buyer"} /\ trade.buyer_id = trade.seller_id)
          => balance' = balance]_vars

\* a trade of two units between two traders has been bookkept by both
C3_Witness ==
  /\ pc = "next"
  /\ trade # NoTrade
  /\ trade.buyer_id # trade.seller_id
  /\ trade.quantity = MaxQty
  /\ balance[trade.seller_id]["money"] = MaxQty * trade.price

(***************************************************************************)
(* C4: every trade executes at the price of the resting order: the seller  *)
(* who crosses a bid receives at least its ask, the buyer who crosses an   *)
(* ask pays at most its bid.                                               *)
(***************************************************************************)
C4_MakerPrice ==
  [][(Submitted /\ trade' # NoTrade) =>
       LET o == order'
           g == o.ptype
           s == Opposite(o.otype)
       IN /\ Has(lob, g, s)
          /\ trade'.price = lob[g][s].price
          /\ o.otype = "ask" => trade'.price >= o.price
          /\ o.otype = "bid" => trade'.price <= o.price]_vars

\* an ask below the resting bid has traded at the price of the bid
C4_Witness ==
  /\ pc = "bookkeep_seller"
  /\ order.otype = "ask"
  /\ trade.seller_id = order.tid
  /\ trade.price > order.price

(***************************************************************************)
(* C5: as long as a cell is not emptied, a new resting order has a         *)
(* strictly better price than the one it replaces (higher for a bid,       *)
(* lower for an ask), and an order that stays keeps its price while its    *)
(* quantity can only shrink.                                               *)
(***************************************************************************)
C5_PriceImprovement ==
  [][\A g \in Goods : \A s \in Sides :
       (Has(lob, g, s) /\ Has(lob', g, s)) =>
          LET old == lob[g][s]
              new == lob'[g][s]
          IN IF new.oid = old.oid
               THEN /\ new.price = old.price
                    /\ new.quantity <= old.quantity
                    /\ new.tid = old.tid
               ELSE /\ s = "bid" => new.price > old.price
                    /\ s = "ask" => new.price < old.price]_vars

\* an ask has displaced a resting ask of another trader
C5_Witness ==
  /\ branch.admit = "improved"
  /\ order.otype = "ask"
  /\ Has(lob, order.ptype, "ask")
  /\ lob[order.ptype]["ask"].oid = order.oid
  /\ order.price = minprice + 1

(***************************************************************************)
(* C6: add_order_lob on an occupied cell returns False and leaves the book *)
(* as it was when the order does not strictly improve the resting price    *)
(* (ties included); when it does, the new order alone takes the cell.      *)
(***************************************************************************)
\* the book handed to add_order_lob: the book before the call, without the
\* resting order of the other side when that one was evicted as stale
BookAtAdmit(o) ==
  LET opp == Opposite(o.otype)
  IN IF Has(lob, o.ptype, opp) /\ ~Has(lob', o.ptype, opp)
       THEN DelOrderLob(lob, o.ptype, opp) ELSE lob

\* process_order reached add_order_lob: the order passed the price filter
\* and the solvency check and did not trade
ReachedAdmit(o) ==
  /\ Submitted
  /\ pc' # "raised"
  /\ trade' = NoTrade
  /\ o.price > minprice /\ o.price < maxprice
  /\ o.otype = "ask" => o.quantity <= balance[o.tid][o.ptype]
  /\ o.otype = "bid" => o.price * o.quantity <= balance[o.tid]["money"]

C6_AdmitStrict ==
  [][LET o == order'
         g == o.ptype
         s == o.otype
     IN (ReachedAdmit(o) /\ Has(lob, g, s)) =>
          IF \/ s = "bid" /\ o.price > lob[g][s].price
             \/ s = "ask" /\ o.price < lob[g][s].price
            THEN /\ o.accepted
                 /\ lob'[g][s] = o
                 /\ lob' = PutOrder(BookAtAdmit(o), o)
            ELSE /\ ~o.accepted
                 /\ lob' = BookAtAdmit(o)]_vars

\* a bid that ties the resting bid of another trader has been rejected
C6_Witness ==
  /\ branch.admit = "rejected"
  /\ order.otype = "bid"
  /\ ~order.accepted
  /\ Has(lob, order.ptype, "bid")
  /\ lob[order.ptype]["bid"].price = order.price
  /\ lob[order.ptype]["bid"].tid # order.tid

C8_NoCrossOfEmptyBook ==
  [][(/\ Submitted
      /\ order'.price > minprice /\ order'.price < maxprice
      /\ ~Has(lob, order'.ptype, Opposite(order'.otype))) =>
       /\ trade' = NoTrade
       /\ pc' = "next"
       /\ ~Has(lob', order'.ptype, Opposite(order'.otype))
       /\ order'.accepted =>
            /\ Has(lob', order'.ptype, order'.otype)
            /\ lob'[order'.ptype][order'.otype] = order'
       /\ ~order'.accepted => lob' = lob]_vars

\* an ask at the lowest admissible price rests while no bid is in the book
C8_Witness ==
  /\ pc = "next"
  /\ order.otype = "ask"
  /\ order.price = minprice + 1
  /\ order.accepted
  /\ branch.process = "rest"
  /\ ~Has(lob, order.ptype, "bid")

(***************************************************************************)
(* C9: an ask that crosses a resting bid whose owner holds less money than *)
(* price * quantity of that bid produces no trade; the bid leaves the book *)
(* and the ask goes through add_order_lob as a fresh order.                *)
(***************************************************************************)
C9_StaleBidEvicted ==
  [][LET o == order'
         g == o.ptype
     IN (/\ Submitted
         /\ o.otype = "ask"
         /\ o.price > minprice /\ o.price < maxprice
         /\ o.quantity <= balance[o.tid][g]
         /\ Has(lob, g, "bid")
         /\ o.price <= lob[g]["bid"].price
         /\ balance[lob[g]["bid"].tid]["money"]
               < lob[g]["bid"].price * lob[g]["bid"].quantity) =>
          LET evicted == DelOrderLob(lob, g, "bid")
          IN /\ trade' = NoTrade
             /\ pc' = "next"
             /\ balance' = balance
             /\ ~Has(lob', g, "bid")
             /\ IF Has(evicted, g, "ask") /\ ~(o.price < evicted[g]["ask"].price)
                  THEN ~o.accepted /\ lob' = evicted
                  ELSE o.accepted /\ lob' = PutOrder(evicted, o)]_vars

\* a bid that its owner could pay when it was posted has been evicted by a
\* crossing ask
C9_Witness ==
  /\ branch.process = "stale"
  /\ order.otype = "ask"
  /\ trade = NoTrade
  /\ ~Has(lob, order.ptype, "bid")
  /\ order.accepted

(***************************************************************************)
(* C10 as claimed: a bid that crosses a resting ask evicts the ask (and    *)
(* goes through add_order_lob) if and only if the owner of the ask holds   *)
(* fewer units of the good than the quantity of the resting ask; otherwise *)
(* the match executes.                                                     *)
(***************************************************************************)
C10_StaleAskEvicted ==
  [][LET o == order'
         g == o.ptype
     IN (/\ Submitted
         /\ o.otype = "bid"
         /\ o.price > minprice /\ o.price < maxprice
         /\ o.price * o.quantity <= balance[o.tid]["money"]
         /\ Has(lob, g, "ask")
         /\ o.price >= lob[g]["ask"].price) =>
          IF balance[lob[g]["ask"].tid][g] < lob[g]["ask"].quantity
            THEN trade' = NoTrade /\ ~Has(lob', g, "ask")
            ELSE trade' # NoTrade /\ trade'.seller_id = lob[g]["ask"].tid]_vars

(***************************************************************************)
(* C11: every match trades min(incoming quantity, resting quantity); when  *)
(* the incoming quantity is strictly smaller the resting order stays with  *)
(* its quantity reduced by the fill, otherwise it leaves the book.         *)
(***************************************************************************)
Min(a, b) == IF a < b THEN a ELSE b

C11_FillQuantity ==
  [][(Submitted /\ trade' # NoTrade) =>
       LET o == order'
           g == o.ptype
           s == Opposite(o.otype)
           resting == lob[g][s]
       IN /\ trade'.quantity = Min(o.quantity, resting.quantity)
          /\ IF o.quantity < resting.quantity
               THEN /\ Has(lob', g, s)
                    /\ lob'[g][s] = [resting EXCEPT !.quantity = @ - trade'.quantity]
               ELSE ~Has(lob', g, s)]_vars

\* a unit bid has taken one unit of a resting block ask, which stays in the
\* book with what is left
C11_Witness ==
  /\ pc = "bookkeep_seller"
  /\ branch.process = "partial"
  /\ order.otype = "bid"
  /\ trade.quantity = order.quantity
  /\ Has(lob, order.ptype, "ask")
  /\ lob[order.ptype]["ask"].quantity = MaxQty - trade.quantity

(***************************************************************************)
(* C12: an incoming order that trades never rests in the book: what the    *)
(* resting order could not fill is dropped, and the cell of the incoming   *)
(* order's own good and side is after the call what it was before.         *)
(***************************************************************************)
C12_TakerNeverRests ==
  [][(Submitted /\ trade' # NoTrade) =>
       LET o == order'
           g == o.ptype
           s == o.otype
       IN /\ Has(lob', g, s) <=> Has(lob, g, s)
          /\ Has(lob, g, s) => lob'[g][s] = lob[g][s]
          /\ \A h \in Goods : \A d \in Sides :
               Has(lob', h, d) => lob'[h][d].oid # o.oid]_vars

\* a block ask has been filled for the one unit of the resting bid while the
\* ask cell was empty, and is empty still
C12_Witness ==
  /\ pc = "bookkeep_seller"
  /\ branch.process = "full"
  /\ order.otype = "ask"
  /\ order.quantity > trade.quantity
  /\ ~Has(lob, order.ptype, "ask")

ResetStep == pc \in {"start", "loop"} /\ order' = NoOrder

C15_ProcessLeavesTraders ==
  [][/\ Submitted =>
          /\ balance' = balance
          /\ utility' = utility
          /\ blotter' = blotter
     /\ balance' # balance =>
          pc \in {"bookkeep_seller", "bookkeep_buyer"} \/ ResetStep]_vars

\* process_order has returned a trade between two traders, and the seller
\* still holds its endowment and an empty blotter
C15_Witness ==
  /\ pc = "bookkeep_seller"
  /\ trade # NoTrade
  /\ trade.buyer_id # trade.seller_id
  /\ balance[trade.seller_id] = Endowment(ttype(trade.seller_id))
  /\ balance[trade.buyer_id] = Endowment(ttype(trade.buyer_id))
  /\ blotter[trade.seller_id] = <<>>
  /\ blotter[trade.buyer_id] = <<>>

(***************************************************************************)
(* C17: bookkeep of a trade whose buyer is its seller leaves the money and *)
(* the goods of that trader unchanged and appends the trade to the         *)
(* trader's blotter.                                                       *)
(***************************************************************************)
C17_SelfTradeNoOp ==
  [][(/\ pc \in {"bookkeep_seller", "bookkeep_buyer"}
      /\ trade.buyer_id = trade.seller_id) =>
       LET t == trade.buyer_id
       IN /\ balance' = balance
          /\ blotter'[t] = Append(blotter[t], trade)
          /\ \A u \in Traders \ {t} : blotter'[u] = blotter[u]]_vars

\* the driver has called bookkeep of a self-trade for the seller and for the
\* buyer, and the trader has the trade twice at the end of its blotter
C17_Witness ==
  /\ pc = "next"
  /\ trade # NoTrade
  /\ trade.buyer_id = trade.seller_id
  /\ LET b == blotter[trade.buyer_id]
     IN /\ Len(b) >= 2
        /\ b[Len(b)] = trade
        /\ b[Len(b) - 1] = trade
  /\ utility[trade.buyer_id] = calc_utility(ttype(trade.buyer_id), balance[trade.buyer_id])

(***************************************************************************)
(* C16 as claimed: process_order of an order whose side is neither bid nor *)
(* ask fails with an error whatever the price of the order, it never       *)
(* returns a result.                                                       *)
(***************************************************************************)
C16_InvalidSideFails ==
  [][(Submitted /\ order'.otype \notin Sides) => pc' = "raised"]_vars

(***************************************************************************)
(* C16 amended: process_order of an order whose side is neither bid nor    *)
(* ask fails with an error when the price lies strictly between minprice   *)
(* and maxprice; with any other price the order is turned down like every  *)
(* out-of-range order, without an error.  The book and the traders stay as *)
(* they were in both cases.                                                *)
(***************************************************************************)
C16_InvalidSideFailsInRange ==
  [][(Submitted /\ order'.otype \notin Sides) =>
       /\ lob' = lob
       /\ trade' = NoTrade
       /\ balance' = balance
       /\ ~order'.accepted
       /\ IF order'.price > minprice /\ order'.price < maxprice
            THEN pc' = "raised"
            ELSE pc' = "next"]_vars

\* an order with an admissible price and an unknown side has raised the
\* error while orders were resting in the book
C16_Witness ==
  /\ pc = "raised"
  /\ order.otype = InvalidSide
  /\ order.price = minprice + 1
  /\ branch.process = "invalid_side"
  /\ Has(lob, order.ptype, "bid")

(***************************************************************************)
(* C18 as claimed: bookkeep called on a trader who is neither the buyer    *)
(* nor the seller of the trade fails with an error and leaves the balance, *)
(* the utility and the blotter of that trader unchanged.                   *)
(***************************************************************************)
\* the step is a bookkeep call on a trader outside the trade
StrayCall == pc = "bookkeep_seller" /\ pc' \in {"raised", "returned"}

C18_StrayBookkeepFails ==
  [][StrayCall =>
       /\ pc' = "raised"
       /\ balance' = balance
       /\ utility' = utility
       /\ blotter' = blotter]_vars

(***************************************************************************)
(* C19: in normal mode get_feasible_choices returns ("ask", g) for every   *)
(* good g of which the trader holds more than 0, ("bid", g) for every good *)
(* g whose resting bid price (0 for an empty cell) is strictly below the   *)
(* trader's money, the no-op choice exactly when do_nothing is set, and    *)
(* nothing else, each choice once.                                         *)
(***************************************************************************)
Range(seq) == {seq[i] : i \in 1 .. Len(seq)}

C19_FeasibleNormal ==
  feasible # NoCall =>
    LET bal == balance[feasible.tid]
        top(g) == IF Has(lob, g, "bid") THEN lob[g]["bid"].price ELSE 0
        expected ==
          {<<"ask", g>> : g \in {h \in Goods : bal[h] > 0}}
          \cup {<<"bid", g>> : g \in {h \in Goods : bal["money"] > top(h)}}
          \cup (IF feasible.do_nothing THEN {<<"do nothing", " ">>} ELSE {})
    IN /\ Range(feasible.choices) = expected
       /\ Len(feasible.choices) = Cardinality(expected)

\* trader 1 holds X and exactly the money that the resting bid for X offers:
\* it may do nothing, sell X or bid for Y, and may not bid for X
C19_Witness ==
  /\ feasible.tid = 1
  /\ feasible.do_nothing
  /\ Has(lob, "X", "bid")
  /\ lob["X"]["bid"].price = balance[1]["money"]
  /\ feasible.choices = <<(<<"do nothing", " ">>), (<<"ask", "X">>), (<<"bid", "Y">>)>>

(***************************************************************************)
(* C14 as claimed: the arbitrage field of every trade equals the strategic *)
(* flag of the resting order that was filled.                              *)
(***************************************************************************)
C14_MirrorsStrategicFlag ==
  [][(Processed /\ trade' # NoTrade) =>
       trade'.arbitrage
         = lob[Incoming.ptype][Opposite(Incoming.otype)].strategic]_vars

(***************************************************************************)
(* C14 amended: the arbitrage field of every trade equals the arbitrage    *)
(* flag of the resting order that was filled, the flag of the second       *)
(* order of a plan; neither flag of the incoming order has a part in it.   *)
(***************************************************************************)
C14_MirrorsArbitrageFlag ==
  [][(Processed /\ trade' # NoTrade) =>
       trade'.arbitrage
         = lob[Incoming.ptype][Opposite(Incoming.otype)].arbitrage]_vars

\* a regular order has filled the resting second order of a plan
C14_Witness ==
  /\ pc = "bookkeep_seller"
  /\ trade.arbitrage
  /\ ~order.arbitrage
  /\ ~order.strategic
  /\ trade.taker # order.tid
  /\ strategic_order[trade.taker] # NoOrder

(***************************************************************************)
(* C20: every trade that process_order returns to the driver, for the      *)
(* order of get_order or for the second order of a plan, is bookkept once  *)
(* by its seller, then once by its buyer, and appended once to             *)
(* trade_history; nothing else writes a blotter or the history.            *)
(***************************************************************************)
C20_EveryTradeBookkept ==
  [][/\ (Processed /\ trade' # NoTrade) => pc' = "bookkeep_seller"
     /\ pc = "bookkeep_seller" =>
          /\ pc' = "bookkeep_buyer"
          /\ trade' = trade
          /\ blotter' = [blotter EXCEPT ![trade.seller_id] = Append(@, trade)]
          /\ trade_history' = trade_history
     /\ pc = "bookkeep_buyer" =>
          /\ pc' \in {"next", "second_order"}
          /\ trade' = trade
          /\ blotter' = [blotter EXCEPT ![trade.buyer_id] = Append(@, trade)]
          /\ trade_history' = Append(trade_history, trade)
     /\ pc \notin {"bookkeep_seller", "bookkeep_buyer"} =>
          /\ blotter' = blotter
          /\ trade_history' = trade_history]_vars

\* the strategic order of a plan has traded and has been bookkept by both
\* parties, and the second order has been processed and rests in the book
C20_Witness ==
  /\ pc = "next"
  /\ order.strategic
  /\ trade = NoTrade
  /\ Len(trade_history) = 2
  /\ trade_history[2].arbitrage = FALSE
  /\ order.tid \in {trade_history[2].buyer_id, trade_history[2].seller_id}
  /\ Has(lob, order.ptype, Opposite(order.otype))
  /\ lob[order.ptype][Opposite(order.otype)] = arbitrage_order[order.tid]

(***************************************************************************)
(* C21: after a period boundary (reset_allocations) all four (good, side)  *)
(* cells of the book are empty and every trader holds the endowment of its *)
(* type (type 1: 10 X, type 2: 20 Y, type 3: 400 money) with utility 0,    *)
(* while the shared history of each good is what it was before the reset.  *)
(***************************************************************************)
\* the step over a period boundary
PeriodBoundary == pc \in {"start", "loop"} /\ pc' = "loop"

C21_ResetKeepsHistory ==
  [][PeriodBoundary =>
       /\ \A g \in Goods, s \in Sides : ~Has(lob', g, s)
       /\ \A t \in Traders :
            /\ balance'[t] =
                 [money |-> IF ttype(t) = 3 THEN 400 ELSE 0,
                  X |-> IF ttype(t) = 1 THEN 10 ELSE 0,
                  Y |-> IF ttype(t) = 2 THEN 20 ELSE 0]
            /\ utility'[t] = 0
       /\ \A g \in Goods : history'[g] = history[g]]_vars

\* a period boundary has followed a trade of this behaviour: the balances
\* are the endowments again, the book is empty, and the last observation of
\* X is the one that the trade has left
C21_Witness ==
  /\ pc = "loop"
  /\ trade_history # <<>>
  /\ lob = EmptyLob
  /\ \A t \in Traders : balance[t] = Endowment(ttype(t)) /\ utility[t] = 0
  /\ history["X"] # <<>>
  /\ history["X"][Len(history["X"])][5] > PastOrders

(***************************************************************************)
(* C22: the view handed to every get_order and to every respond shows the  *)
(* book as it is: in each of the four (good, side) cells the pair (price,  *)
(* quantity) of the resting order, with the quantity a partial fill has    *)
(* left and with the order that has just been admitted, or (None, None)    *)
(* for an empty cell; no cell carries a trader id.                         *)
(***************************************************************************)
C22_ViewShowsBook ==
  pc \in {"get_order", "respond"} =>
    \A g \in Goods, s \in Sides :
      alob[g][s] = IF Has(lob, g, s)
                     THEN <<lob[g][s].price, lob[g][s].quantity>>
                     ELSE <<None, None>>

\* respond is about to be called after a partial fill: the view shows the
\* quantity that is left of the resting block order
C22_Witness ==
  /\ pc = "respond"
  /\ branch.process = "partial"
  /\ Has(lob, order.ptype, Opposite(order.otype))
  /\ lob[order.ptype][Opposite(order.otype)].quantity = MaxQty - 1
  /\ alob[order.ptype][Opposite(order.otype)][2] = MaxQty - 1
  /\ alob[order.ptype][order.otype] = <<None, None>>

(***************************************************************************)
(* C23: every call of equilibrium_price for a good whose shared history    *)
(* holds fewer than 10 bid observations or fewer than 5 ask observations   *)
(* returns a value of the random range (X: 20 to 80, Y: 10 to 40) and does *)
(* not evaluate the splines.                                               *)
(***************************************************************************)
\* the step in which respond runs its body and calls equilibrium_price
RespondBody == pc = "respond" /\ new_turn

C23_FallbackPrice ==
  [][RespondBody =>
       LET good == order.ptype
           his == history'[good]
           n_bid == Cardinality({i \in 1 .. Len(his) : his[i][4] = "bid"})
           n_ask == Cardinality({i \in 1 .. Len(his) : his[i][4] = "ask"})
       IN (n_bid < 10 \/ n_ask < 5) =>
            /\ ~e_price'[good].spline
            /\ IF good = "X" THEN e_price'[good].price \in 20 .. 80
                             ELSE e_price'[good].price \in 10 .. 40]_vars

\* respond has set the price of X with ten bid observations and fewer than
\* five ask observations in the history: a random price, here another one
\* than before
C23_Witness ==
  /\ pc = "respond"
  /\ responder = 2
  /\ order.ptype = "X"
  /\ CountSide(history["X"], "bid") >= 10
  /\ CountSide(history["X"], "ask") < 5
  /\ ~e_price["X"].spline
  /\ e_price["X"].price # FallbackLow("X")

(***************************************************************************)
(* C24: the change of the book that an accepted order has caused is        *)
(* appended to the shared history at most once, however many eGD and GDZ   *)
(* traders have respond called for the order: a call of respond after the  *)
(* first one for the same order changes neither the shared history nor the *)
(* shared equilibrium price, and no history holds two observations of the  *)
(* same side for the same order.                                           *)
(***************************************************************************)
\* no two observations of one side carry the same order id
ObservedOnce(his) ==
  \A i, j \in 1 .. Len(his) :
    (his[i][4] = his[j][4] /\ his[i][5] = his[j][5]) => i = j

C24_RespondOnce ==
  [][/\ (pc = "respond" /\ responder > 1) =>
          (history' = history /\ e_price' = e_price)
     /\ \A g \in Goods : ObservedOnce(history'[g])]_vars

\* two traders have had respond called for a bid that took the resting ask:
\* the history of the good ends with the one observation of that ask
C24_Witness ==
  /\ pc = "respond"
  /\ responder = 3
  /\ trade # NoTrade
  /\ LET his == history[order.ptype]
     IN /\ his # <<>>
        /\ his[Len(his)] = <<trade.price, trade.quantity, TRUE, "ask", order.oid>>
        /\ \A i \in 1 .. Len(his) - 1 : his[i][5] # order.oid

(***************************************************************************)
(* C25: after every call of respond the shared history of each good holds  *)
(* at most 30 (the memory window) observations with accepted = true; a     *)
(* call only appends observations of its order and, when it trims, cuts    *)
(* the oldest part of the history up to and including the oldest accepted  *)
(* observation, once for each accepted observation it has appended;        *)
(* nothing else changes the history.                                       *)
(***************************************************************************)
\* new is old without its first cut observations, followed by observations
\* of the order oid
CutAndAppended(old, new, cut, oid) ==
  LET kept == Len(old) - cut
  IN /\ Len(new) >= kept
     /\ SubSeq(new, 1, kept) = SubSeq(old, cut + 1, Len(old))
     /\ \A i \in kept + 1 .. Len(new) : new[i][5] = oid
     /\ cut > 0 =>
          /\ old[cut][3]
          /\ Cardinality({i \in 1 .. cut : old[i][3]})
               <= Cardinality({i \in kept + 1 .. Len(new) : new[i][3]})

C25_MemoryWindow ==
  [][/\ pc = "respond" =>
          \A g \in Goods :
            /\ Cardinality({i \in 1 .. Len(history'[g]) : history'[g][i][3]}) <= 30
            /\ \E cut \in 0 .. Len(history[g]) :
                 CutAndAppended(history[g], history'[g], cut, order.oid)
     /\ pc # "respond" => history' = history]_vars

\* the history of X was full when an order emptied a cell of X: respond has
\* appended the observation and cut the history behind its oldest accepted
\* observation, the one of order 3
C25_Witness ==
  /\ pc = "respond"
  /\ responder = 2
  /\ LET his == history["X"]
     IN /\ Cardinality(Trades(his)) = memory
        /\ his[1][5] > 3
        /\ his[Len(his)][3]
        /\ his[Len(his)][5] = order.oid

(***************************************************************************)
(* C26 as claimed: a GDZ trader hands in an order that carries the         *)
(* arbitrage flag only after the strategic order of the same plan has      *)
(* traded; a plan whose strategic order has not traded (it rests after the *)
(* stale order it was aimed at has been evicted) gets no such order.       *)
(***************************************************************************)
\* the blotter of trader t holds a trade in which t has sold, or bought,
\* what its strategic order offers
FirstLegTraded(t) ==
  LET first == strategic_order[t]
  IN \E i \in 1 .. Len(blotter[t]) :
       LET tr == blotter[t][i]
       IN /\ tr.ptype = first.ptype
          /\ tr.price = first.price
          /\ tr.quantity = first.quantity
          /\ IF first.otype = "ask" THEN tr.seller_id = t ELSE tr.buyer_id = t

C26_UnwindAfterTrade ==
  [][(Processed /\ Incoming.arbitrage) => FirstLegTraded(Incoming.tid)]_vars

(***************************************************************************)
(* C27: a GDZ trader with a pending plan compares the price at the top of  *)
(* the book on the side of its unwind order with its own unwind price.  If *)
(* they are equal it hands in nothing; if another price p rests there it   *)
(* hands in a new order with the arbitrage flag at p + 1 for a bid and at  *)
(* p - 1 for an ask; if the cell is empty it hands in its unwind order     *)
(* again at the old price.  The plan stays pending in each case.           *)
(***************************************************************************)
\* the order that get_order has returned in this step
Returned == order'

C27_Requote ==
  [][(Submitted /\ strategic_order[Returned.tid] # NoOrder) =>
       LET t == Returned.tid
           first == strategic_order[t]
           side == IF first.otype = "ask" THEN "bid" ELSE "ask"
           own == arbitrage_order[t].price
           top == IF Has(lob, first.ptype, side)
                    THEN lob[first.ptype][side].price ELSE None
       IN /\ top # own
          /\ Returned.arbitrage /\ ~Returned.strategic
          /\ Returned.otype = side
          /\ Returned.ptype = first.ptype
          /\ Returned.quantity = 1
          /\ top = None => Returned.price = own
          /\ (top # None /\ side = "bid") => Returned.price = top + 1
          /\ (top # None /\ side = "ask") => Returned.price = top - 1
          /\ strategic_order'[t] = first
          /\ arbitrage_order'[t].price = Returned.price]_vars

\* a trader whose unwind order is a bid has found the bid of another trader
\* at the lowest price and has overbid it by one
C27_Witness ==
  /\ order.arbitrage
  /\ order.otype = "bid"
  /\ order.price = minprice + 2
  /\ strategic_order[order.tid] # NoOrder
  /\ arbitrage_order[order.tid].price = order.price
  /\ pc = "next"

(***************************************************************************)
(* C28 as claimed: at a period boundary every GDZ trader whose strategic   *)
(* order has not traded appends one entry for it to rejected_trades and    *)
(* drops its strategic and its unwind order; a trader whose strategic      *)
(* order has traded, or who has no plan, records nothing.                  *)
(***************************************************************************)
C28_RejectedIfUnfilled ==
  [][PeriodBoundary =>
       \A t \in Traders :
         /\ strategic_order'[t] = NoOrder
         /\ arbitrage_order'[t] = NoOrder
         /\ rejected_trades'[t] =
              IF strategic_order[t] # NoOrder /\ ~FirstLegTraded(t)
                THEN Append(rejected_trades[t], strategic_order[t])
                ELSE rejected_trades[t]]_vars

(***************************************************************************)
(* C28 as the code has it: at a period boundary every GDZ trader with a    *)
(* pending plan, whether its strategic order has traded or not, appends    *)
(* that strategic order to rejected_trades and drops its strategic and its *)
(* unwind order; a trader without pending plan records nothing.            *)
(***************************************************************************)
C28_RejectedIfPending ==
  [][PeriodBoundary =>
       \A t \in Traders :
         /\ strategic_order'[t] = NoOrder
         /\ arbitrage_order'[t] = NoOrder
         /\ rejected_trades'[t] =
              IF strategic_order[t] # NoOrder
                THEN Append(rejected_trades[t], strategic_order[t])
                ELSE rejected_trades[t]]_vars

\* after a period boundary: a trader has filed the strategic ask of a plan
\* under rejected_trades, and its blotter shows that the ask had traded
C28_Witness ==
  /\ pc = "loop"
  /\ lob = EmptyLob
  /\ \E t \in Traders :
       /\ strategic_order[t] = NoOrder
       /\ arbitrage_order[t] = NoOrder
       /\ Len(rejected_trades[t]) = 1
       /\ rejected_trades[t][1].strategic
       /\ rejected_trades[t][1].otype = "ask"
       /\ \E i \in 1 .. Len(blotter[t]) :
            /\ blotter[t][i].seller_id = t
            /\ blotter[t][i].buyer_id # t
            /\ blotter[t][i].ptype = rejected_trades[t][1].ptype
            /\ blotter[t][i].price = rejected_trades[t][1].price

\* the trader t commits a plan in this step
Commits(t) == strategic_order[t] = NoOrder /\ strategic_order'[t] # NoOrder

\* C29: a plan is committed only when the largest product of profit and
\* acceptance probability over the candidate prices, the probabilities below
\* one half counted as zero, is positive, and the committed unwind price
\* attains it; the first leg then has the price of the resting order it
\* takes and the unwind price is lower than it after a sale and higher
\* after a purchase.
C29_CommitsOnlyWithProfit ==
  [][\A t \in Traders :
       Commits(t) =>
         LET first == strategic_order'[t]
             unwind == arbitrage_order'[t]
             resting == publish_alob[first.ptype][unwind.otype][1]
             counted(x) == IF 2 * prob'[x] >= 100 THEN prob'[x] ELSE 0
             gain(x) == IF first.otype = "ask" THEN (first.price - x) * counted(x)
                        ELSE (x - first.price) * counted(x)
         IN /\ \E x \in UnwindPrices : gain(x) > 0
            /\ \A x \in UnwindPrices : gain(x) <= gain(unwind.price)
            /\ resting # None
            /\ first.price = resting
            /\ unwind.otype # first.otype
            /\ first.otype = "ask" => unwind.price < first.price
            /\ first.otype = "bid" => unwind.price > first.price]_vars

\* a plan has been committed whose unwind price is not the most profitable
\* candidate, because that one is accepted with too small a probability
C29_Witness ==
  /\ order # NoOrder
  /\ order.strategic
  /\ strategic_order[order.tid] # NoOrder
  /\ LET unwind == arbitrage_order[order.tid]
     IN /\ prob[unwind.price] >= min_probability
        /\ \E x \in UnwindPrices :
              /\ prob[x] < min_probability
              /\ Profit(unwind.otype, order.price, x)
                   > Profit(unwind.otype, order.price, unwind.price)

\* the cell of the view that an order of this action for this good takes
TakenCell(action, good) == <<good, IF action = "ask" THEN "bid" ELSE "ask">>

\* the resting orders that arbitrage_opportunity evaluates for the trader t
Candidates(t) ==
  LET choices == get_feasible_choices(ttype(t), balance[t], publish_alob, FALSE, TRUE)
  IN {TakenCell(choices[i][1], choices[i][2]) : i \in 1 .. Len(choices)}

\* C30 as stated: a trader that commits a plan has evaluated every resting
\* order of the published view, on both sides of both goods, as a candidate
\* first leg (and has chosen the best plan among them).
C30_ScansAllCells ==
  [][\A t \in Traders :
       Commits(t) =>
         \A g \in Goods, side \in Sides :
           publish_alob[g][side][1] # None => <<g, side>> \in Candidates(t)]_vars

\* C30: a trader that commits a plan has evaluated one resting order only,
\* the first that qualifies of the two of its type: the bid for Y when it
\* holds Y, else the ask for X when its money covers it (type 1); the ask
\* for Y when its money covers it, else the bid for X when it holds X
\* (type 2); the bid for Y when it holds Y, else the bid for X when it
\* holds X (type 3).  The first leg takes that order.
C30_FirstOfTypePair ==
  [][\A t \in Traders :
       Commits(t) =>
         LET view == publish_alob
             holds(g) == view[g]["bid"][1] # None /\ balance[t][g] > 0
             pays(g) == /\ view[g]["ask"][1] # None
                        /\ balance[t]["money"] >= view[g]["ask"][1]
             first == strategic_order'[t]
             leg == <<first.otype, first.ptype>>
         IN /\ ttype(t) = 1 =>
                 \/ holds("Y") /\ leg = <<"ask", "Y">>
                 \/ ~holds("Y") /\ pays("X") /\ leg = <<"bid", "X">>
            /\ ttype(t) = 2 =>
                 \/ pays("Y") /\ leg = <<"bid", "Y">>
                 \/ ~pays("Y") /\ holds("X") /\ leg = <<"ask", "X">>
            /\ ttype(t) = 3 =>
                 \/ holds("Y") /\ leg = <<"ask", "Y">>
                 \/ ~holds("Y") /\ holds("X") /\ leg = <<"ask", "X">>
            /\ Candidates(t) = {TakenCell(first.otype, first.ptype)}]_vars

\* a trader has committed a plan that sells Y while a bid for X that it
\* could have taken as well rests in the book
C30_Witness ==
  /\ pc = "bookkeep_seller"
  /\ order.strategic
  /\ order.otype = "ask"
  /\ order.ptype = "Y"
  /\ Has(lob, "X", "bid")
  /\ balance[order.tid]["X"] > 0

(***************************************************************************)
(* C34: the book is never crossed: for each good, when a bid and an ask    *)
(* rest together the price of the bid is below the price of the ask.       *)
(***************************************************************************)
C34_NeverCrossed ==
  \A g \in Goods :
    (Has(lob, g, "bid") /\ Has(lob, g, "ask")) =>
       lob[g]["bid"].price < lob[g]["ask"].price

\* an ask has been admitted above the resting bid
C34_Witness ==
  /\ order # NoOrder
  /\ order.otype = "ask"
  /\ order.accepted
  /\ Has(lob, order.ptype, "bid")
  /\ Has(lob, order.ptype, "ask")
  /\ lob[order.ptype]["ask"].oid = order.oid
  /\ lob[order.ptype]["ask"].price > lob[order.ptype]["bid"].price

(***************************************************************************)
(* C35: whenever process_order returns False for the order, the book after *)
(* the call is the book before it in all four cells, and no trade is made; *)
(* a rejected order never evicts a resting order.                          *)
(***************************************************************************)
C35_RejectedLeavesBook ==
  [][(Submitted /\ pc' # "raised" /\ ~order'.accepted) =>
       /\ lob' = lob
       /\ trade' = NoTrade]_vars

\* an ask that crosses a resting bid the bidder can no longer pay has been
\* rejected, its owner holding too little of the good, and the bid rests
C35_Witness ==
  /\ branch.process = "insufficient"
  /\ ~order.accepted
  /\ order.otype = "ask"
  /\ Has(lob, order.ptype, "bid")
  /\ order.price <= lob[order.ptype]["bid"].price
  /\ order.price > minprice
  /\ LET bid == lob[order.ptype]["bid"]
     IN balance[bid.tid]["money"] < bid.price * bid.quantity

(***************************************************************************)
(* C36: after process_order has evicted a stale resting order the incoming *)
(* order always rests in its own cell, the call returns True and makes no  *)
(* trade.                                                                  *)
(***************************************************************************)
\* the order o crosses a resting order whose owner cannot complete the trade
EvictsStale(o) ==
  LET g == o.ptype
  IN /\ o.price > minprice /\ o.price < maxprice
     /\ \/ /\ o.otype = "ask"
           /\ o.quantity <= balance[o.tid][g]
           /\ Has(lob, g, "bid")
           /\ o.price <= lob[g]["bid"].price
           /\ balance[lob[g]["bid"].tid]["money"]
                 < lob[g]["bid"].price * lob[g]["bid"].quantity
        \/ /\ o.otype = "bid"
           /\ o.price * o.quantity <= balance[o.tid]["money"]
           /\ Has(lob, g, "ask")
           /\ o.price >= lob[g]["ask"].price
           /\ balance[lob[g]["ask"].tid][g] < o.quantity

C36_AdmitAfterEviction ==
  [][(Submitted /\ EvictsStale(order')) =>
       /\ order'.accepted
       /\ trade' = NoTrade
       /\ Has(lob', order'.ptype, order'.otype)
       /\ lob'[order'.ptype][order'.otype] = order'
       /\ ~Has(lob', order'.ptype, Opposite(order'.otype))]_vars

\* an ask has evicted a stale bid and has taken the place of a resting ask
C36_Witness ==
  /\ branch.process = "stale"
  /\ branch.admit = "improved"
  /\ order.otype = "ask"
  /\ order.accepted
  /\ Has(lob, order.ptype, "ask")
  /\ lob[order.ptype]["ask"].oid = order.oid

(***************************************************************************)
(* C37 as claimed: when the iteration of the driver ends with a trade that *)
(* an unwind order of a GDZ trader has made, be it the resting order that  *)
(* was filled or the incoming order that crossed, the plan of that trader  *)
(* is cleared and the trade is the last of its completed arbitrages.       *)
(***************************************************************************)
\* the trade of this iteration has filled or was made by an unwind order of t
UnwindTraded(t) ==
  /\ trade # NoTrade
  /\ \/ trade.arbitrage /\ t = trade.taker
     \/ order.arbitrage /\ t = order.tid
     \/ order.strategic /\ t = order.tid

C37_UnwindTradeClearsPlan ==
  \A t \in Traders :
    (pc = "next" /\ UnwindTraded(t)) =>
       /\ strategic_order[t] = NoOrder
       /\ arbitrage_trades[t] # <<>>
       /\ arbitrage_trades[t][Len(arbitrage_trades[t])].trade = trade

(***************************************************************************)
(* C38: while the plan of a GDZ trader is pending, every order that its    *)
(* get_order returns carries the arbitrage flag and not the strategic one, *)
(* has quantity 1, is for the good of the plan and on the side opposite to *)
(* the first leg; the strategic order of the plan stays as it is.          *)
(***************************************************************************)
C38_OnlyUnwindWhilePending ==
  [][\A t \in Traders :
       (Submitted /\ order'.tid = t /\ strategic_order[t] # NoOrder) =>
          /\ order'.arbitrage
          /\ ~order'.strategic
          /\ order'.quantity = 1
          /\ order'.ptype = strategic_order[t].ptype
          /\ order'.otype = Opposite(strategic_order[t].otype)
          /\ strategic_order'[t] = strategic_order[t]]_vars

\* a trader with a pending plan has found the bid side empty and has left
\* its unwind bid in the book
C38_Witness ==
  /\ pc = "next"
  /\ order.arbitrage
  /\ order.accepted
  /\ order.otype = "bid"
  /\ order.price = minprice + 1
  /\ strategic_order[order.tid] # NoOrder
  /\ strategic_order[order.tid].otype = "ask"
  /\ Has(lob, order.ptype, "bid")
  /\ lob[order.ptype]["bid"].oid = order.oid

(***************************************************************************)
(* C39 as claimed: every observation that respond appends to the shared    *)
(* history with accepted = true is that of a resting order which the trade *)
(* of the iteration has filled completely: an order that the period        *)
(* boundary or a stale eviction took out of the book is never recorded as  *)
(* accepted.                                                               *)
(***************************************************************************)
\* the observation obs of the good g is that of the resting order which the
\* trade of this iteration has taken out of the book
FilledByTrade(g, obs) ==
  /\ trade # NoTrade
  /\ trade.ptype = g
  /\ obs[4] = Opposite(order.otype)
  /\ obs[1] = trade.price
  /\ ~Has(lob, g, obs[4])

C39_AcceptedMeansFilled ==
  [][\A g \in Goods :
       \A i \in 1 .. Len(history'[g]) :
         LET obs == history'[g][i]
         IN (pc = "respond" /\ history' # history /\ obs[5] = order.oid /\ obs[3]) =>
               FilledByTrade(g, obs)]_vars
\* get_order has returned None to the driver
ReturnsNone == pc = "loop" /\ pc' = "next" /\ order' = NoOrder

\* whatever prices are drawn, every candidate of trader t loses utility
NoneWorthwhile(t) ==
  \A offer \in Offers(t, ShoutPrices) : NegativeBest(t, offer)

(***************************************************************************)
(* C32 as claimed: when none of the candidate shouts of an eGD trader has  *)
(* a non-negative utility gain, get_order returns no order and the trader  *)
(* is inactive afterwards.                                                 *)
(***************************************************************************)
C32_GoesInactive ==
  [][\A t \in Traders :
       (ReturnsNone /\ trader' = t /\ NoneWorthwhile(t)) =>
          (order' = NoOrder /\ ~active'[t])]_vars

(***************************************************************************)
(* C32 amended: when none of the candidate shouts of an eGD trader has a   *)
(* non-negative utility gain, get_order returns no order, nothing reaches  *)
(* the exchange and the trader stays active, as every trader is from its   *)
(* construction on.                                                        *)
(***************************************************************************)
C32_StaysActive ==
  [][ReturnsNone =>
       /\ trader' \in Traders
       /\ trade' = NoTrade
       /\ lob' = lob
       /\ order_id' = order_id
       /\ active' = active
       /\ \A u \in Traders : active'[u]]_vars

\* trader t has been asked for an order and has returned none: whatever the
\* prices, its best candidate loses utility; t is still active
C32_Witness ==
  /\ pc = "next"
  /\ order = NoOrder
  /\ trader \in Traders
  /\ active[trader]
  /\ NoneWorthwhile(trader)

\* regular_order returns the order o to trader t for the prices offer
ReturnedFor(t, offer, o) ==
  /\ <<o.otype, o.ptype>> \in DOMAIN offer
  /\ ShoutPrice(o.otype, offer[<<o.otype, o.ptype>>], balance[t]["money"],
                publish_alob, o.ptype) = o.price
  /\ [regular_order(t, balance[t], publish_alob, offer, o.oid)
        EXCEPT !.accepted = o.accepted] = o

\* get_order has returned an order to the driver
ReturnsOrder == pc = "loop" /\ order' # NoOrder

C40_Solvent ==
  [][ReturnsOrder =>
       /\ order'.tid = trader'
       /\ order'.otype = "bid" =>
            order'.price * order'.quantity <= balance[trader']["money"]
       /\ order'.otype = "ask" =>
            order'.quantity <= balance[trader'][order'.ptype]
       /\ branch'.process # "insufficient"]_vars

\* a bid one tick above the resting bid of another trader has taken the
\* resting ask, the price a bid at the resting bid is moved to
C40_Witness ==
  /\ pc = "bookkeep_seller"
  /\ trader = order.tid
  /\ order.otype = "bid" /\ order.accepted
  /\ trade # NoTrade /\ trade.price = order.price
  /\ Has(lob, order.ptype, "bid")
  /\ lob[order.ptype]["bid"].tid # order.tid
  /\ lob[order.ptype]["bid"].price = order.price - 1

\* the driver takes trader' from trader_list and asks it for its order
AsksZIP ==
  pc = "loop" /\ trader' \in trader_list /\ trader_list' = trader_list \ {trader'}

\* price is the integer next to the shout price of h halves, the even one of
\* the two when h lies in the middle
Rounded(price, h) ==
  \/ 2 * price = h
  \/ 2 * price - h \in {-1, 1} /\ price % 2 = 0

\* C31: a ZIP trader that the driver asks in a timestep returns no order
\* after it has committed to "do nothing"; an order it returns is its own,
\* for the side and the good of the choice it drew at the top of this
\* timestep (choices change nowhere else), of one unit, at its shout price
\* for that good rounded to an integer, a bid above the resting bid and an
\* ask below the resting ask of the view, an empty cell being open to any
\* price, and filling it would not lower the trader's utility.
C31_ShoutsItsChoice ==
  [][/\ AsksZIP =>
          LET t == trader'
              ch == choice[t]
              resting == publish_alob[order'.ptype][order'.otype][1]
          IN /\ ch[1] = "do nothing" => order' = NoOrder
             /\ order' # NoOrder =>
                  /\ order'.tid = t
                  /\ <<order'.otype, order'.ptype>> = ch
                  /\ order'.quantity = 1
                  /\ Rounded(order'.price, shout_price[t][order'.ptype])
                  /\ order'.otype = "bid" => resting = None \/ order'.price > resting
                  /\ order'.otype = "ask" => resting = None \/ order'.price < resting
                  /\ utility_gain_order(ttype(t), balance[t], order') >= 0
     /\ choice' # choice => trader_list = {} /\ trader_list' = Traders]_vars

\* the driver is about to call respond for the bid that a trader has made
\* for its choice at a shout price between two integers, and that has
\* crossed the resting ask
C31_Witness ==
  /\ pc = "respond"
  /\ responder = 1
  /\ order.tid = trader
  /\ order.accepted
  /\ <<order.otype, order.ptype>> = choice[trader]
  /\ order.otype = "bid"
  /\ shout_price[trader][order.ptype] % 2 = 1
  /\ order.price = round(shout_price[trader][order.ptype])
  /\ trade # NoTrade

====
